---- MODULE Spec2Model ----
(***************************************************************************)
(* Billing management: the record store (StorageService over two           *)
(* localforage instances), the zustand store that mirrors it, and the UI   *)
(* handlers that drive them (customer form, invoice form, customer list,   *)
(* backup import/export).                                                  *)
(*                                                                         *)
(* Every handler is one action.  A storage-driver fault is an input of the *)
(* action: the fault plan names the driver call of the handler that        *)
(* rejects (at most one per handler run).                                  *)
(***************************************************************************)
EXTENDS Integers, Sequences, FiniteSets, TLC

(***************************************************************************)
(* Bounds of the model.                                                    *)
(***************************************************************************)
MaxClock == 4        \* Date.now() takes the values up to MaxClock
MaxFaults == 1       \* storage-driver faults in one behaviour
MaxPayload == 2      \* most records (customers plus invoices) of an imported payload

(***************************************************************************)
(* Temporal values.  A Date object and its ISO-8601 text are different     *)
(* values: toISOString exists on the first only, new Date(..) accepts both.*)
(***************************************************************************)
NaN == -1

DateOf(ms) == [type |-> "Date", ms |-> ms]

IsoString(ms) == [type |-> "string", ms |-> ms]

InvalidDate == DateOf(NaN)

\* Date.prototype.toISOString: a TypeError on a string (no such method),
\* a RangeError on an invalid date.
CanToISOString(d) == d.type = "Date" /\ d.ms # NaN

toISOString(d) == IsoString(d.ms)

\* new Date(x) for x a Date or an ISO string
NewDate(x) == DateOf(x.ms)

(***************************************************************************)
(* E-mail addresses: three texts, two of which differ in letter case only. *)
(***************************************************************************)
Emails == {"a@x.com", "A@x.com", "b@x.com"}

toLowerCase(e) == IF e = "A@x.com" THEN "a@x.com" ELSE e

(***************************************************************************)
(* Invoice numbers: the text prefix followed by a run of decimal digits.   *)
(***************************************************************************)
RECURSIVE DigitsOf(_)
\* String(n) for n >= 0
DigitsOf(n) == IF n < 10 THEN <<n>> ELSE Append(DigitsOf(n \div 10), n % 10)

RECURSIVE padStart(_, _)
\* s.padStart(len, '0')
padStart(s, len) == IF Len(s) >= len THEN s ELSE padStart(<<0>> \o s, len)

RECURSIVE parseInt(_)
\* parseInt of a run of decimal digits
parseInt(ds) ==
  IF ds = <<>> THEN 0 ELSE 10 * parseInt(SubSeq(ds, 1, Len(ds) - 1)) + ds[Len(ds)]

InvNumber(n) == [prefix |-> "INV-", digits |-> padStart(DigitsOf(n), 5)]

\* inv.invoiceNumber.match(/INV-(\d+)/) ? parseInt(match[1]) : 0
NumberOf(invoiceNumber) ==
  IF invoiceNumber.prefix = "INV-" /\ Len(invoiceNumber.digits) > 0
  THEN parseInt(invoiceNumber.digits)
  ELSE 0

(***************************************************************************)
(* The localforage instances: a map from key to stored value.              *)
(***************************************************************************)
EmptyDB == [k \in {} |-> TRUE]

\* variant: a key that is present keeps its value
setItem_KeepsExisting(db, key, value) ==
  [k \in (DOMAIN db) \cup {key} |-> IF k \in DOMAIN db THEN db[k] ELSE value]

setItem(db, key, value) ==
  [k \in (DOMAIN db) \cup {key} |-> IF k = key THEN value ELSE db[k]]

removeItem(db, key) == [k \in (DOMAIN db) \ {key} |-> db[k]]

RECURSIVE SeqOfSet(_)
\* keys(): the keys in ascending order
SeqOfSet(S) ==
  IF S = {} THEN <<>>
  ELSE LET m == CHOOSE x \in S : \A y \in S : x <= y
       IN <<m>> \o SeqOfSet(S \ {m})

keys(db) == SeqOfSet(DOMAIN db)

\* the probe entry of ensureInitialized; record ids are positive clock
\* values, so key 0 stands for the text '__test__'
testKey == 0

TestEntry == [test |-> TRUE]

IsTestEntry(v) == "test" \in DOMAIN v

(***************************************************************************)
(* Array.prototype.sort((a, b) => b.createdAt - a.createdAt): stable,      *)
(* a NaN comparison counts as 0.                                           *)
(***************************************************************************)
\* variant: a.createdAt - b.createdAt
CompareDesc_Ascending(a, b) ==
  IF a.createdAt.ms = NaN \/ b.createdAt.ms = NaN THEN 0
  ELSE a.createdAt.ms - b.createdAt.ms

CompareDesc(a, b) ==
  IF a.createdAt.ms = NaN \/ b.createdAt.ms = NaN THEN 0
  ELSE b.createdAt.ms - a.createdAt.ms

RECURSIVE InsertSorted(_, _)
InsertSorted(sorted, x) ==
  IF sorted = <<>> THEN <<x>>
  ELSE IF CompareDesc(sorted[Len(sorted)], x) <= 0 THEN Append(sorted, x)
  ELSE Append(InsertSorted(SubSeq(sorted, 1, Len(sorted) - 1), x),
              sorted[Len(sorted)])

RECURSIVE SortByCreatedDesc(_)
SortByCreatedDesc(rows) ==
  IF rows = <<>> THEN <<>>
  ELSE InsertSorted(SortByCreatedDesc(SubSeq(rows, 1, Len(rows) - 1)),
                    rows[Len(rows)])

Range(rows) == {rows[n] : n \in DOMAIN rows}

(***************************************************************************)
(* Fault plans.  kind "init": step `at` of ensureInitialized rejects;      *)
(* kind "write": the `at`-th write call of the handler rejects; kind       *)
(* "read": the `at`-th scan of the handler rejects.                        *)
(***************************************************************************)
NoFault == [kind |-> "none", at |-> 0]

InitFault(f) == IF f.kind = "init" THEN f.at ELSE 0

WriteFault(f, n) == f.kind = "write" /\ f.at = n

ReadFault(f, n) == f.kind = "read" /\ f.at = n

(***************************************************************************)
(* StorageService.  st = [c |-> customersDB, i |-> invoicesDB,             *)
(* init |-> this.initialized].  A method yields [st, ok, val]: the storage *)
(* it leaves, whether it returned (ok) or threw, and the value returned.   *)
(***************************************************************************)
Ret(st, ok, val) == [st |-> st, ok |-> ok, val |-> val]

\* Steps: 1 customersDB.ready, 2 invoicesDB.ready, 3 setItem(c, testKey),
\* 4 removeItem(c, testKey), 5 setItem(i, testKey), 6 removeItem(i, testKey).
\* k = 0: no step rejects; otherwise step k rejects and the method throws.
ensureInitialized(st, k) ==
  IF st.init THEN Ret(st, TRUE, "void")
  ELSE IF k = 0
    THEN Ret([c |-> removeItem(st.c, testKey), i |-> removeItem(st.i, testKey),
              init |-> TRUE], TRUE, "void")
    ELSE Ret([c |-> IF k <= 3 THEN st.c
                    ELSE IF k = 4 THEN setItem(st.c, testKey, TestEntry)
                    ELSE removeItem(st.c, testKey),
              i |-> IF k <= 5 THEN st.i ELSE setItem(st.i, testKey, TestEntry),
              init |-> FALSE], FALSE, "error")

\* variant: the dates are handed back as the stored texts
ReadCustomer_KeepsText(item) ==
  IF IsTestEntry(item)
  THEN [test |-> TRUE, createdAt |-> InvalidDate, updatedAt |-> InvalidDate]
  ELSE item

\* the value a stored customer is read as: its dates parsed back
ReadCustomer(item) ==
  IF IsTestEntry(item)
  THEN [test |-> TRUE, createdAt |-> InvalidDate, updatedAt |-> InvalidDate]
  ELSE [item EXCEPT !.createdAt = NewDate(@), !.updatedAt = NewDate(@)]

\* variant: createdAt is handed back as the stored text
ReadInvoice_KeepsText(item) ==
  IF IsTestEntry(item)
  THEN [test |-> TRUE, createdAt |-> InvalidDate]
  ELSE item

ReadInvoice(item) ==
  IF IsTestEntry(item)
  THEN [test |-> TRUE, createdAt |-> InvalidDate]
  ELSE [item EXCEPT !.createdAt = NewDate(@)]

\* the try block of getAllCustomers; fault: keys() or a getItem rejects
ScanCustomers(db, fault) ==
  IF fault THEN <<>>
  ELSE SortByCreatedDesc([n \in 1..Len(keys(db)) |-> ReadCustomer(db[keys(db)[n]])])

ScanInvoices(db, fault) ==
  IF fault THEN <<>>
  ELSE SortByCreatedDesc([n \in 1..Len(keys(db)) |-> ReadInvoice(db[keys(db)[n]])])

getAllCustomers(st, f) ==
  LET e == ensureInitialized(st, InitFault(f))
  IN IF ~e.ok THEN Ret(e.st, FALSE, <<>>)
     ELSE Ret(e.st, TRUE, ScanCustomers(e.st.c, ReadFault(f, 1)))

getAllInvoices(st, f) ==
  LET e == ensureInitialized(st, InitFault(f))
  IN IF ~e.ok THEN Ret(e.st, FALSE, <<>>)
     ELSE Ret(e.st, TRUE, ScanInvoices(e.st.i, ReadFault(f, 1)))

\* the body of createCustomer and of updateCustomer(id, customer) after
\* ensureInitialized; fault: setItem rejects
PutCustomer(st, id, customer, fault) ==
  IF ~CanToISOString(customer.createdAt) \/ ~CanToISOString(customer.updatedAt)
    THEN Ret(st, FALSE, "TypeError")
  ELSE IF fault THEN Ret(st, FALSE, "error")
  ELSE Ret([st EXCEPT !.c = setItem(st.c, id,
              [customer EXCEPT !.createdAt = toISOString(@),
                               !.updatedAt = toISOString(@)])],
           TRUE, customer)

PutInvoice(st, id, invoice, fault) ==
  IF ~CanToISOString(invoice.createdAt) THEN Ret(st, FALSE, "TypeError")
  ELSE IF fault THEN Ret(st, FALSE, "error")
  ELSE Ret([st EXCEPT !.i = setItem(st.i, id,
              [invoice EXCEPT !.createdAt = toISOString(@)])],
           TRUE, invoice)

createCustomer(st, customer, f) ==
  LET e == ensureInitialized(st, InitFault(f))
  IN IF ~e.ok THEN Ret(e.st, FALSE, "error")
     ELSE PutCustomer(e.st, customer.id, customer, WriteFault(f, 1))

updateCustomer(st, id, customer, f) ==
  LET e == ensureInitialized(st, InitFault(f))
  IN IF ~e.ok THEN Ret(e.st, FALSE, "error")
     ELSE PutCustomer(e.st, id, customer, WriteFault(f, 1))

createInvoice(st, invoice, f) ==
  LET e == ensureInitialized(st, InitFault(f))
  IN IF ~e.ok THEN Ret(e.st, FALSE, "error")
     ELSE PutInvoice(e.st, invoice.id, invoice, WriteFault(f, 1))

\* the try block of deleteInvoice; fault: removeItem rejects
RemoveInvoice(st, id, fault) ==
  IF fault THEN Ret(st, FALSE, "error")
  ELSE Ret([st EXCEPT !.i = removeItem(st.i, id)], TRUE, "void")

deleteInvoice(st, id, f) ==
  LET e == ensureInitialized(st, InitFault(f))
  IN IF ~e.ok THEN Ret(e.st, FALSE, "error")
     ELSE RemoveInvoice(e.st, id, WriteFault(f, 1))

\* the try block of getInvoicesByCustomerId
InvoicesOfCustomer(db, customerId, fault) ==
  LET OfCustomer(inv) == ~IsTestEntry(inv) /\ inv.customerId = customerId
  IN SelectSeq(ScanInvoices(db, fault), OfCustomer)

RECURSIVE DeleteEach(_, _, _, _)
\* for (const invoice of invoices) await this.deleteInvoice(invoice.id);
\* the n-th invoice of the loop is write call n + 1 of deleteCustomer
DeleteEach(st, invoices, n, f) ==
  IF n > Len(invoices) THEN Ret(st, TRUE, "void")
  ELSE LET d == RemoveInvoice(st, invoices[n].id, WriteFault(f, n + 1))
       IN IF ~d.ok THEN d ELSE DeleteEach(d.st, invoices, n + 1, f)

\* variant: a fault of the loop over the invoices is logged and not rethrown
deleteCustomer_SwallowsFault(st, id, f) ==
  LET e == ensureInitialized(st, InitFault(f))
  IN IF ~e.ok THEN Ret(e.st, FALSE, "error")
     ELSE IF WriteFault(f, 1) THEN Ret(e.st, FALSE, "error")
     ELSE LET removed == [e.st EXCEPT !.c = removeItem(e.st.c, id)]
              d == DeleteEach(removed,
                              InvoicesOfCustomer(removed.i, id, ReadFault(f, 1)), 1, f)
          IN Ret(d.st, TRUE, "void")

deleteCustomer(st, id, f) ==
  LET e == ensureInitialized(st, InitFault(f))
  IN IF ~e.ok THEN Ret(e.st, FALSE, "error")
     ELSE IF WriteFault(f, 1) THEN Ret(e.st, FALSE, "error")
     ELSE LET removed == [e.st EXCEPT !.c = removeItem(e.st.c, id)]
          IN DeleteEach(removed,
                        InvoicesOfCustomer(removed.i, id, ReadFault(f, 1)), 1, f)

RECURSIVE MaxOf(_)
\* Math.max(...numbers) of a non-empty array
MaxOf(numbers) ==
  IF Len(numbers) = 1 THEN numbers[1]
  ELSE LET m == MaxOf(Tail(numbers))
       IN IF numbers[1] > m THEN numbers[1] ELSE m

\* s.slice(-5)
SliceLast5(s) == IF Len(s) <= 5 THEN s ELSE SubSeq(s, Len(s) - 4, Len(s))

\* variant: the count of the scanned invoices in place of the maximum suffix
NextNumber_CountsInvoices(invoices) == InvNumber(Len(invoices) + 1)

\* the try block of getNextInvoiceNumber over the scanned invoices
NextNumber(invoices) ==
  LET numbers == [n \in 1..Len(invoices) |-> NumberOf(invoices[n].invoiceNumber)]
      maxNumber == IF Len(numbers) > 0 THEN MaxOf(numbers) ELSE 0
  IN InvNumber(maxNumber + 1)

\* now: the value of Date.now(), used by the catch block only.  The catch
\* block is entered when the map over the scanned invoices throws (an
\* entry without invoiceNumber); a rejected scan does not reach it, because
\* getAllInvoices has already turned it into [].
getNextInvoiceNumber(st, now, f) ==
  LET e == ensureInitialized(st, InitFault(f))
      invoices == ScanInvoices(e.st.i, ReadFault(f, 1))
  IN IF ~e.ok THEN Ret(e.st, FALSE, "error")
     ELSE IF \E n \in DOMAIN invoices : IsTestEntry(invoices[n])
       THEN Ret(e.st, TRUE, [prefix |-> "INV-", digits |-> SliceLast5(DigitsOf(now))])
     ELSE Ret(e.st, TRUE, NextNumber(invoices))

\* variant: invoicesDB.clear() is left out
ClearBoth_CustomersOnly(st, f) ==
  IF WriteFault(f, 1) THEN Ret(st, FALSE, "error")
  ELSE IF WriteFault(f, 2) THEN Ret([st EXCEPT !.c = EmptyDB], FALSE, "error")
  ELSE Ret([st EXCEPT !.c = EmptyDB], TRUE, "void")

\* the try block of clearAllData; write call 1 is customersDB.clear(),
\* write call 2 is invoicesDB.clear()
ClearBoth(st, f) ==
  IF WriteFault(f, 1) THEN Ret(st, FALSE, "error")
  ELSE IF WriteFault(f, 2) THEN Ret([st EXCEPT !.c = EmptyDB], FALSE, "error")
  ELSE Ret([st EXCEPT !.c = EmptyDB, !.i = EmptyDB], TRUE, "void")

clearAllData(st, f) ==
  LET e == ensureInitialized(st, InitFault(f))
  IN IF ~e.ok THEN Ret(e.st, FALSE, "error") ELSE ClearBoth(e.st, f)

\* A payload {customers, invoices}: each field is an array
\* ([kind |-> "array", items |-> ..]) or a value that is not one.
Arr(items) == [kind |-> "array", items |-> items]

Payload(customers, invoices) == [customers |-> Arr(customers), invoices |-> Arr(invoices)]

IsArray(v) == v.kind = "array"

\* !v of the payload field v
Falsy(v) == v.kind = "undefined"

exportData(st, f) ==
  LET e == ensureInitialized(st, InitFault(f))
  IN IF ~e.ok THEN Ret(e.st, FALSE, "error")
     ELSE Ret(e.st, TRUE, Payload(ScanCustomers(e.st.c, ReadFault(f, 1)),
                                  ScanInvoices(e.st.i, ReadFault(f, 2))))

RECURSIVE ImportCustomers(_, _, _, _, _)
\* for (const customer of data.customers) await this.createCustomer(customer);
\* the n-th customer is write call base + n of importData
ImportCustomers(st, customers, n, base, f) ==
  IF n > Len(customers) THEN Ret(st, TRUE, "void")
  ELSE LET w == PutCustomer(st, customers[n].id, customers[n], WriteFault(f, base + n))
       IN IF ~w.ok THEN w ELSE ImportCustomers(w.st, customers, n + 1, base, f)

RECURSIVE ImportInvoices(_, _, _, _, _)
ImportInvoices(st, invoices, n, base, f) ==
  IF n > Len(invoices) THEN Ret(st, TRUE, "void")
  ELSE LET w == PutInvoice(st, invoices[n].id, invoices[n], WriteFault(f, base + n))
       IN IF ~w.ok THEN w ELSE ImportInvoices(w.st, invoices, n + 1, base, f)

\* a for..of over a value that is not iterable throws a TypeError
importData(st, data, f) ==
  LET e == ensureInitialized(st, InitFault(f))
      cleared == ClearBoth(e.st, f)
      cs == IF IsArray(data.customers)
            THEN ImportCustomers(cleared.st, data.customers.items, 1, 2, f)
            ELSE Ret(cleared.st, FALSE, "TypeError")
      is == IF IsArray(data.invoices)
            THEN ImportInvoices(cs.st, data.invoices.items, 1,
                                2 + Len(data.customers.items), f)
            ELSE Ret(cs.st, FALSE, "TypeError")
  IN IF ~e.ok THEN Ret(e.st, FALSE, "error")
     ELSE IF ~cleared.ok THEN cleared
     ELSE IF ~cs.ok THEN cs
     ELSE is

EmptySt == [c |-> EmptyDB, i |-> EmptyDB, init |-> TRUE]

\* the storage that holds the records of a payload
StoredBy(data) == importData(EmptySt, data, NoFault).st

\* the try block of checkEmailExists; a rejected scan has become []
EmailIn(customers, email, excludeId) ==
  \E n \in DOMAIN customers :
    /\ toLowerCase(customers[n].email) = toLowerCase(email)
    /\ customers[n].id # excludeId

checkEmailExists(st, email, excludeId, f) ==
  LET e == ensureInitialized(st, InitFault(f))
  IN IF ~e.ok THEN Ret(e.st, FALSE, "error")
     ELSE Ret(e.st, TRUE, EmailIn(ScanCustomers(e.st.c, ReadFault(f, 1)), email, excludeId))

updateInvoice(st, id, invoice, f) ==
  LET e == ensureInitialized(st, InitFault(f))
  IN IF ~e.ok THEN Ret(e.st, FALSE, "error")
     ELSE PutInvoice(e.st, id, invoice, WriteFault(f, 1))

\* null
Null == [kind |-> "null"]

\* fault (read 1): getItem rejects
getCustomerById(st, id, f) ==
  LET e == ensureInitialized(st, InitFault(f))
  IN IF ~e.ok THEN Ret(e.st, FALSE, "error")
     ELSE IF ReadFault(f, 1) THEN Ret(e.st, TRUE, Null)
     ELSE IF id \in DOMAIN e.st.c THEN Ret(e.st, TRUE, ReadCustomer(e.st.c[id]))
     ELSE Ret(e.st, TRUE, Null)

getInvoiceById(st, id, f) ==
  LET e == ensureInitialized(st, InitFault(f))
  IN IF ~e.ok THEN Ret(e.st, FALSE, "error")
     ELSE IF ReadFault(f, 1) THEN Ret(e.st, TRUE, Null)
     ELSE IF id \in DOMAIN e.st.i THEN Ret(e.st, TRUE, ReadInvoice(e.st.i[id]))
     ELSE Ret(e.st, TRUE, Null)

getInvoicesByCustomerId(st, customerId, f) ==
  LET e == ensureInitialized(st, InitFault(f))
  IN IF ~e.ok THEN Ret(e.st, FALSE, "error")
     ELSE Ret(e.st, TRUE, InvoicesOfCustomer(e.st.i, customerId, ReadFault(f, 1)))

(***************************************************************************)
(* Records.  A customer carries the fields the store logic reads: id,      *)
(* personalInfo.email, createdAt, updatedAt; an invoice id, invoiceNumber, *)
(* customerId, status, createdAt.                                          *)
(***************************************************************************)
Customer(id, email, createdAt, updatedAt) ==
  [id |-> id, email |-> email, createdAt |-> DateOf(createdAt),
   updatedAt |-> DateOf(updatedAt)]

Invoice(id, invoiceNumber, customerId, createdAt) ==
  [id |-> id, invoiceNumber |-> invoiceNumber, customerId |-> customerId,
   status |-> "unpaid", createdAt |-> DateOf(createdAt)]

\* JSON.stringify then JSON.parse of a record: a Date comes back as its
\* ISO-8601 text
JsonCustomer(c) == [c EXCEPT !.createdAt = toISOString(@), !.updatedAt = toISOString(@)]

JsonInvoice(inv) == [inv EXCEPT !.createdAt = toISOString(@)]

JsonCustomers(v) ==
  IF IsArray(v) THEN Arr([n \in 1..Len(v.items) |-> JsonCustomer(v.items[n])]) ELSE v

JsonInvoices(v) ==
  IF IsArray(v) THEN Arr([n \in 1..Len(v.items) |-> JsonInvoice(v.items[n])]) ELSE v

\* the text of a backup file: JSON.stringify(data, null, 2)
Stringify(data) ==
  [kind |-> "json",
   value |-> [customers |-> JsonCustomers(data.customers),
              invoices |-> JsonInvoices(data.invoices)]]

NotJson == [kind |-> "garbage"]

(***************************************************************************)
(* State.                                                                  *)
(***************************************************************************)
VARIABLES
  customersDB,     \* localforage instance "customers"
  invoicesDB,      \* localforage instance "invoices"
  initialized,     \* StorageService.initialized
  customers,       \* useStore: customers
  invoices,        \* useStore: invoices
  customersError,  \* useStore: customersError is set
  invoicesError,   \* useStore: invoicesError is set
  form,            \* the open form: CustomerForm (step, e-mail, error) or InvoiceForm (values)
  now,             \* Date.now()
  issued,          \* history: the numbers given to invoices by the invoice form, in order
  faults,          \* history: the storage-driver faults so far
  last,            \* history: the handler that ran last and how it ended
  inflight         \* the asynchronous calls in flight and the driver's request queues

vars == <<customersDB, invoicesDB, initialized, customers, invoices,
          customersError, invoicesError, form, now, issued, faults, last, inflight>>

St == [c |-> customersDB, i |-> invoicesDB, init |-> initialized]

SetSt(st) ==
  /\ customersDB' = st.c
  /\ invoicesDB' = st.i
  /\ initialized' = st.init

ClosedForm == [open |-> FALSE]

\* no call in flight: started counts the calls begun, run maps the calls in
\* flight to their position, c and i queue the requests of the two instances
Idle == [started |-> 0, run |-> <<>>, c |-> <<>>, i |-> <<>>]

\* the plans of a handler that makes up to nWrites write calls and nReads
\* scans; uninitialized: ensureInitialized still has its steps to run
FaultPlans(uninitialized, nWrites, nReads) ==
  IF faults >= MaxFaults THEN {NoFault}
  ELSE {NoFault}
    \cup {[kind |-> "init", at |-> k] : k \in (IF uninitialized THEN 1..6 ELSE {})}
    \cup {[kind |-> "write", at |-> n] : n \in 1..nWrites}
    \cup {[kind |-> "read", at |-> n] : n \in 1..nReads}

Charge(f) == faults' = IF f = NoFault THEN faults ELSE faults + 1

\* a handler of the sequential specifications runs to its end in one step
Done(op, res, arg) ==
  /\ last' = [op |-> op, res |-> res, arg |-> arg]
  /\ UNCHANGED inflight

\* a direct call of the service also records the kind of its fault plan
DoneCall(op, res, arg, f) ==
  /\ last' = [op |-> op, res |-> res, arg |-> arg, fault |-> f.kind]
  /\ UNCHANGED inflight

(***************************************************************************)
(* useStore (zustand).  A store action yields the storage and the store    *)
(* fields it leaves.                                                       *)
(***************************************************************************)
\* loadCustomers then loadInvoices (initializeData); plan: scan 1 is the
\* customers scan, scan 2 the invoices scan; a getAll that throws sets the
\* error field and leaves the list
initializeData(st, f) ==
  LET rc == getAllCustomers(st, f)
      ri == getAllInvoices(rc.st, IF ReadFault(f, 2) THEN [kind |-> "read", at |-> 1]
                                  ELSE NoFault)
  IN [st |-> ri.st,
      customers |-> IF rc.ok THEN rc.val ELSE customers,
      invoices |-> IF ri.ok THEN ri.val ELSE invoices,
      customersError |-> ~rc.ok,
      invoicesError |-> ~ri.ok]

SetStore(r) ==
  /\ SetSt(r.st)
  /\ customers' = r.customers
  /\ invoices' = r.invoices
  /\ customersError' = r.customersError
  /\ invoicesError' = r.invoicesError

\* useStore.importData: storageService.importData, then initializeData;
\* a throw of the first skips the reload
storeImportData(st, data, f) ==
  LET r == importData(st, data, f)
      loaded == initializeData(r.st, f)
  IN IF r.ok THEN loaded @@ [ok |-> TRUE]
     ELSE [st |-> r.st, customers |-> customers, invoices |-> invoices,
           customersError |-> customersError, invoicesError |-> invoicesError,
           ok |-> FALSE]

ReplaceById(list, id, record) ==
  [n \in DOMAIN list |-> IF list[n].id = id THEN record ELSE list[n]]

(***************************************************************************)
(* Handlers.                                                               *)
(***************************************************************************)
\* constructor: this.initialize(), which swallows a failure
Initialize(f) ==
  /\ last.op = "constructor"
  /\ LET e == ensureInitialized(St, InitFault(f))
     IN /\ SetSt(e.st)
        /\ Done("initialize", IF e.ok THEN "ok" ELSE "throw", "none")
  /\ Charge(f)
  /\ UNCHANGED <<customers, invoices, customersError, invoicesError, form, now, issued>>

\* App mount effect: initializeData()
InitializeData(f) ==
  /\ last.op \in {"constructor", "initialize"}
  /\ SetStore(initializeData(St, f))
  /\ Done("initializeData", "ok", "none")
  /\ Charge(f)
  /\ UNCHANGED <<form, now, issued>>

NoCustomer == [id |-> 0]

OpenCustomerForm ==
  /\ ~form.open
  /\ form' = [open |-> TRUE, editing |-> NoCustomer, step |-> 1, email |-> "",
              emailError |-> FALSE, saved |-> FALSE]
  /\ Done("openCustomerForm", "ok", "none")
  /\ UNCHANGED <<faults, customersDB, invoicesDB, initialized, customers, invoices,
                 customersError, invoicesError, now, issued>>

\* CustomerList onEdit: the form opens on a customer of the store's list
EditCustomer(n) ==
  /\ ~form.open
  /\ form' = [open |-> TRUE, editing |-> customers[n], step |-> 1,
              email |-> customers[n].email, emailError |-> FALSE, saved |-> FALSE]
  /\ Done("editCustomer", "ok", "none")
  /\ UNCHANGED <<faults, customersDB, invoicesDB, initialized, customers, invoices,
                 customersError, invoicesError, now, issued>>

\* the e-mail input changes
TypeEmail(e) ==
  /\ form.open /\ form.step = 1 /\ e # form.email
  /\ form' = [form EXCEPT !.email = e]
  /\ Done("typeEmail", "ok", "none")
  /\ UNCHANGED <<faults, customersDB, invoicesDB, initialized, customers, invoices,
                 customersError, invoicesError, now, issued>>

\* the e-mail effect: checkEmailExists(debouncedEmail, editingCustomer?.id),
\* then setError or clearErrors; a throw is caught and changes nothing
CheckEmail(f) ==
  /\ form.open /\ form.step < 3 /\ form.email # ""
  /\ LET r == checkEmailExists(St, form.email, form.editing.id, f)
     IN /\ SetSt(r.st)
        /\ form' = IF r.ok THEN [form EXCEPT !.emailError = r.val] ELSE form
        /\ Done("checkEmail", IF r.ok THEN "ok" ELSE "throw", "none")
  /\ Charge(f)
  /\ UNCHANGED <<customers, invoices, customersError, invoicesError, now, issued>>

\* nextStep on step 1 (the fields are valid)
NextStep ==
  /\ form.open /\ form.step = 1 /\ form.email # ""
  /\ ~form.emailError
  /\ form' = [form EXCEPT !.step = 2]
  /\ Done("nextStep", "ok", "none")
  /\ UNCHANGED <<faults, customersDB, invoicesDB, initialized, customers, invoices,
                 customersError, invoicesError, now, issued>>

\* variant: if (step > 1) setStep(step - 1)
PreviousStep_FromSuccess ==
  /\ form.open /\ form.step > 1
  /\ form' = [form EXCEPT !.step = form.step - 1]
  /\ Done("previousStep", "ok", "none")
  /\ UNCHANGED <<faults, customersDB, invoicesDB, initialized, customers, invoices,
                 customersError, invoicesError, now, issued>>

PreviousStep ==
  /\ form.open /\ form.step > 1 /\ form.step < 3
  /\ form' = [form EXCEPT !.step = form.step - 1]
  /\ Done("previousStep", "ok", "none")
  /\ UNCHANGED <<faults, customersDB, invoicesDB, initialized, customers, invoices,
                 customersError, invoicesError, now, issued>>

\* handleCancel / onComplete: the form is unmounted
CloseCustomerForm ==
  /\ form.open
  /\ form' = ClosedForm
  /\ Done("closeCustomerForm", "ok", "none")
  /\ UNCHANGED <<faults, customersDB, invoicesDB, initialized, customers, invoices,
                 customersError, invoicesError, now, issued>>

\* variant: the creation time is taken anew on every submit
FormCustomer_FreshCreatedAt ==
  [id |-> IF form.editing # NoCustomer THEN form.editing.id ELSE now,
   email |-> form.email,
   createdAt |-> DateOf(now),
   updatedAt |-> DateOf(now)]

\* the customer onSubmit builds
FormCustomer ==
  [id |-> IF form.editing # NoCustomer THEN form.editing.id ELSE now,
   email |-> form.email,
   createdAt |-> IF form.editing # NoCustomer THEN form.editing.createdAt ELSE DateOf(now),
   updatedAt |-> DateOf(now)]

\* nextStep on step 2: handleSubmit(onSubmit)(), which writes through
\* useStore.updateCustomer or useStore.addCustomer
SubmitCustomer(f) ==
  /\ form.open /\ form.step = 2 /\ ~form.emailError
  /\ now <= MaxClock
  /\ LET customer == FormCustomer
         r == IF form.editing # NoCustomer
              THEN updateCustomer(St, customer.id, customer, f)
              ELSE createCustomer(St, customer, f)
     IN /\ SetSt(r.st)
        /\ customers' = IF ~r.ok THEN customers
                        ELSE IF form.editing # NoCustomer
                          THEN ReplaceById(customers, customer.id, customer)
                        ELSE Append(customers, customer)
        /\ form' = IF r.ok THEN [form EXCEPT !.step = 3, !.saved = TRUE] ELSE form
        /\ Done("submitCustomer", IF r.ok THEN "ok" ELSE "throw", customer)
  /\ now' = now + 1
  /\ Charge(f)
  /\ UNCHANGED <<invoices, customersError, invoicesError, issued>>

\* InvoiceForm.onSubmit for a customer picked from the store's list:
\* getNextInvoiceNumber, then useStore.addInvoice
SubmitInvoice(customerId, f) ==
  /\ ~form.open
  /\ now <= MaxClock
  /\ LET num == getNextInvoiceNumber(St, now, f)
         invoice == Invoice(now, num.val, customerId, now)
         r == IF num.ok THEN createInvoice(num.st, invoice, f) ELSE num
     IN /\ SetSt(r.st)
        /\ invoices' = IF r.ok THEN Append(invoices, invoice) ELSE invoices
        /\ issued' = IF r.ok THEN Append(issued, NumberOf(invoice.invoiceNumber)) ELSE issued
        /\ Done("submitInvoice", IF r.ok THEN "ok" ELSE "throw",
                IF num.ok THEN invoice ELSE "none")
  /\ now' = now + 1
  /\ Charge(f)
  /\ UNCHANGED <<customers, customersError, invoicesError, form>>

\* CustomerList.handleDelete (confirmed): useStore.deleteCustomer
HandleDelete(id, f) ==
  /\ ~form.open
  /\ LET r == deleteCustomer(St, id, f)
         NotId(c) == c.id # id
         NotOfId(inv) == inv.customerId # id
     IN /\ SetSt(r.st)
        /\ customers' = IF r.ok THEN SelectSeq(customers, NotId) ELSE customers
        /\ invoices' = IF r.ok THEN SelectSeq(invoices, NotOfId) ELSE invoices
        /\ Done("deleteCustomer", IF r.ok THEN "ok" ELSE "throw", id)
  /\ Charge(f)
  /\ UNCHANGED <<customersError, invoicesError, form, now, issued>>

\* useStore.deleteInvoice
StoreDeleteInvoice(id, f) ==
  /\ ~form.open
  /\ LET r == deleteInvoice(St, id, f)
         NotId(inv) == inv.id # id
     IN /\ SetSt(r.st)
        /\ invoices' = IF r.ok THEN SelectSeq(invoices, NotId) ELSE invoices
        /\ Done("deleteInvoice", IF r.ok THEN "ok" ELSE "throw", id)
  /\ Charge(f)
  /\ UNCHANGED <<customers, customersError, invoicesError, form, now, issued>>

\* App.handleExportJSON: the text of the downloaded backup
HandleExportJSON(f) ==
  /\ LET r == exportData(St, f)
     IN /\ SetSt(r.st)
        /\ Done("handleExportJSON", IF r.ok THEN "ok" ELSE "throw",
                IF r.ok THEN Stringify(r.val) ELSE "none")
  /\ Charge(f)
  /\ UNCHANGED <<customers, invoices, customersError, invoicesError, form, now, issued>>

\* variant: the Array.isArray tests are left out
ValidFormat_PresenceOnly(data) == ~(Falsy(data.customers) \/ Falsy(data.invoices))

\* the check of handleImportData on the parsed payload
ValidFormat(data) ==
  ~(Falsy(data.customers) \/ Falsy(data.invoices)
      \/ ~IsArray(data.customers) \/ ~IsArray(data.invoices))

\* App.handleImportData on a chosen file: JSON.parse, the format check,
\* window.confirm, useStore.importData; on success the forms are closed
HandleImportData(text, confirmed, f) ==
  /\ LET parsed == text.kind = "json"
         valid == parsed /\ ValidFormat(text.value)
         r == storeImportData(St, text.value, f)
         res == IF ~parsed THEN "SyntaxError"
                ELSE IF ~valid THEN "Invalid data format"
                ELSE IF ~confirmed THEN "cancelled"
                ELSE IF r.ok THEN "ok" ELSE "throw"
     IN /\ IF valid /\ confirmed
           THEN /\ SetStore(r)
                /\ form' = IF r.ok THEN ClosedForm ELSE form
           ELSE UNCHANGED <<customersDB, invoicesDB, initialized, customers, invoices,
                            customersError, invoicesError, form>>
        /\ Done("handleImportData", res, text)
  /\ Charge(f)
  /\ UNCHANGED <<now, issued>>

(***************************************************************************)
(* Inputs of the import handlers.                                          *)
(***************************************************************************)
Undefined == [kind |-> "undefined"]

NotAnArray == [kind |-> "object"]

\* parsed payloads in which customers or invoices is absent or not an array
MalformedPayloads ==
  {[customers |-> c, invoices |-> i] :
     c \in {Arr(<<>>), Undefined, NotAnArray}, i \in {Arr(<<>>), Undefined, NotAnArray}}
    \ {Payload(<<>>, <<>>)}

Draft == [prefix |-> "DRAFT-", digits |-> <<>>]

PoolCustomers ==
  {Customer(1, "a@x.com", 1, 1), Customer(2, "A@x.com", 2, 2), Customer(2, "b@x.com", 1, 3)}

PoolInvoices == {Invoice(1, InvNumber(7), 1, 1), Invoice(2, Draft, 2, 2)}

SeqsOfLen(S, n) == [1..n -> S]

\* {customers, invoices} with Date-valued timestamps, as the signature of
\* importData declares them
TypedPayloads ==
  UNION {{Payload(cs, is) : cs \in SeqsOfLen(PoolCustomers, nc),
                            is \in SeqsOfLen(PoolInvoices, ni)} :
           nc \in 0..MaxPayload, ni \in 0..MaxPayload} 

BoundedPayloads ==
  {d \in TypedPayloads : Len(d.customers.items) + Len(d.invoices.items) <= MaxPayload}

\* backup files written by hand in the export format
FilePayloads ==
  {Payload(<<>>, <<>>), Payload(<<Customer(1, "a@x.com", 1, 1)>>, <<>>),
   Payload(<<>>, <<Invoice(1, InvNumber(7), 1, 1)>>),
   Payload(<<Customer(1, "a@x.com", 1, 1)>>, <<Invoice(1, InvNumber(7), 1, 1)>>)}

\* the files the user can pick: not JSON, JSON of the wrong shape, a
\* hand-written backup, or the backup downloaded last
ImportTexts ==
  {NotJson}
    \cup {[kind |-> "json", value |-> m] : m \in MalformedPayloads}
    \cup {Stringify(d) : d \in FilePayloads}
    \cup (IF last.op = "handleExportJSON" /\ last.res = "ok" THEN {last.arg} ELSE {})

WritesOfImport(data) ==
  2 + (IF IsArray(data.customers) THEN Len(data.customers.items) ELSE 0)
    + (IF IsArray(data.invoices) THEN Len(data.invoices.items) ELSE 0)

\* the customers an earlier session left in the storage
EarlierCustomers == <<Customer(1, "a@x.com", 1, 1), Customer(2, "b@x.com", 2, 2)>>

\* the state after the page has loaded and the StorageService is constructed
Init ==
  /\ customersDB = StoredBy(Payload(EarlierCustomers, <<>>)).c
  /\ invoicesDB = EmptyDB
  /\ initialized = FALSE
  /\ customers = <<>>
  /\ invoices = <<>>
  /\ customersError = FALSE
  /\ invoicesError = FALSE
  /\ form = ClosedForm
  /\ now = Len(EarlierCustomers) + 1
  /\ issued = <<>>
  /\ faults = 0
  /\ inflight = Idle
  /\ last = [op |-> "constructor", res |-> "ok", arg |-> "none"]

(***************************************************************************)
(* The program: the handlers of the list views, the invoice form and the   *)
(* backup menu (Spec), and the handlers of the customer form (SpecForm).   *)
(***************************************************************************)
Next ==
  \/ \E f \in FaultPlans(TRUE, 0, 0) : Initialize(f)
  \/ \E f \in FaultPlans(~initialized, 0, 2) : InitializeData(f)
  \/ \E n \in DOMAIN customers : \E f \in FaultPlans(~initialized, 1, 1) :
       SubmitInvoice(customers[n].id, f)
  \/ \E n \in DOMAIN customers :
       \E f \in FaultPlans(~initialized, 1 + Cardinality(DOMAIN invoicesDB), 1) :
         HandleDelete(customers[n].id, f)
  \/ \E n \in DOMAIN invoices : \E f \in FaultPlans(~initialized, 1, 0) :
       StoreDeleteInvoice(invoices[n].id, f)
  \/ \E f \in FaultPlans(~initialized, 0, 2) : HandleExportJSON(f)
  \/ \E text \in ImportTexts : \E confirmed \in BOOLEAN :
       \E f \in (IF text.kind = "json" /\ ValidFormat(text.value) /\ confirmed
                 THEN FaultPlans(~initialized, WritesOfImport(text.value), 2)
                 ELSE {NoFault}) :
         HandleImportData(text, confirmed, f)

Spec == Init /\ [][Next]_vars

NextForm ==
  \/ \E f \in FaultPlans(TRUE, 0, 0) : Initialize(f)
  \/ \E f \in FaultPlans(~initialized, 0, 2) : InitializeData(f)
  \/ OpenCustomerForm
  \/ \E n \in DOMAIN customers : EditCustomer(n)
  \/ \E e \in Emails : TypeEmail(e)
  \/ \E f \in FaultPlans(~initialized, 0, 1) : CheckEmail(f)
  \/ NextStep
  \/ PreviousStep
  \/ CloseCustomerForm
  \/ \E f \in FaultPlans(~initialized, 1, 0) : SubmitCustomer(f)

SpecForm == Init /\ [][NextForm]_vars

(***************************************************************************)
(* The storage service called directly with values of the declared types,  *)
(* from a storage that earlier sessions left (SpecApi).                    *)
(***************************************************************************)
\* storageService.importData(data)
ImportData(data, f) ==
  /\ LET r == importData(St, data, f)
     IN /\ SetSt(r.st)
        /\ DoneCall("importData", IF r.ok THEN "ok" ELSE "throw", data, f)
  /\ Charge(f)
  /\ UNCHANGED <<customers, invoices, customersError, invoicesError, form, now, issued>>

\* storageService.importData(await storageService.exportData())
RoundTrip(f) ==
  /\ LET x == exportData(St, f)
         r == IF x.ok THEN importData(x.st, x.val, f) ELSE x
     IN /\ SetSt(r.st)
        /\ DoneCall("roundTrip", IF r.ok THEN "ok" ELSE "throw",
                    IF x.ok THEN x.val ELSE "none", f)
  /\ Charge(f)
  /\ UNCHANGED <<customers, invoices, customersError, invoicesError, form, now, issued>>

\* useStore.getNextInvoiceNumber()
GetNextInvoiceNumber(f) ==
  /\ LET r == getNextInvoiceNumber(St, now, f)
     IN /\ SetSt(r.st)
        /\ DoneCall("getNextInvoiceNumber", IF r.ok THEN "ok" ELSE "throw", r.val, f)
  /\ Charge(f)
  /\ UNCHANGED <<customers, invoices, customersError, invoicesError, form, now, issued>>

\* invoices INV-00001 .. INV-00007 of customer 1
SevenInvoices ==
  Payload(<<Customer(1, "a@x.com", 1, 1)>>,
          [n \in 1..7 |-> Invoice(n, InvNumber(n), 1, n)])

InitApi ==
  /\ \E data \in {Payload(<<>>, <<>>), SevenInvoices} \cup FilePayloads :
       /\ customersDB = StoredBy(data).c
       /\ invoicesDB = StoredBy(data).i
  /\ initialized \in BOOLEAN
  /\ customers = <<>>
  /\ invoices = <<>>
  /\ customersError = FALSE
  /\ invoicesError = FALSE
  /\ form = ClosedForm
  /\ now = 1
  /\ issued = <<>>
  /\ faults = 0
  /\ inflight = Idle
  /\ last = [op |-> "constructor", res |-> "ok", arg |-> "none"]

NextApi ==
  \/ \E data \in BoundedPayloads :
       \E f \in FaultPlans(~initialized, WritesOfImport(data), 0) : ImportData(data, f)
  \/ \E f \in FaultPlans(~initialized, 2 + Cardinality(DOMAIN customersDB)
                                          + Cardinality(DOMAIN invoicesDB), 2) :
       RoundTrip(f)
  \/ \E f \in FaultPlans(~initialized, 0, 1) : GetNextInvoiceNumber(f)

SpecApi == InitApi /\ [][NextApi]_vars

(***************************************************************************)
(* Every method of the storage service called directly, one call at a      *)
(* time (SpecCrud).  last records the call, its arguments, how it ended,   *)
(* the value it returned and the kind of storage fault it met.             *)
(***************************************************************************)
DoneOp(op, res, arg, val, f) ==
  /\ last' = [op |-> op, res |-> res, arg |-> arg, val |-> val, fault |-> f.kind]
  /\ UNCHANGED inflight

\* a call of a method that writes: r is its outcome
WriteCall(op, arg, r, f) ==
  /\ SetSt(r.st)
  /\ DoneOp(op, IF r.ok THEN "ok" ELSE "throw", arg, "void", f)
  /\ Charge(f)
  /\ UNCHANGED <<customers, invoices, customersError, invoicesError, form, now, issued>>

\* a call of a method that reads: r is its outcome
ReadCall(op, arg, r, f) ==
  /\ SetSt(r.st)
  /\ DoneOp(op, IF r.ok THEN "ok" ELSE "throw", arg, IF r.ok THEN r.val ELSE "none", f)
  /\ Charge(f)
  /\ UNCHANGED <<customers, invoices, customersError, invoicesError, form, now, issued>>

CreateCustomer(customer, f) ==
  WriteCall("createCustomer", [id |-> customer.id, record |-> customer],
            createCustomer(St, customer, f), f)

UpdateCustomer(customer, f) ==
  WriteCall("updateCustomer", [id |-> customer.id, record |-> customer],
            updateCustomer(St, customer.id, customer, f), f)

DeleteCustomer(id, f) ==
  WriteCall("deleteCustomer", [id |-> id], deleteCustomer(St, id, f), f)

CreateInvoice(invoice, f) ==
  WriteCall("createInvoice", [id |-> invoice.id, record |-> invoice],
            createInvoice(St, invoice, f), f)

UpdateInvoice(invoice, f) ==
  WriteCall("updateInvoice", [id |-> invoice.id, record |-> invoice],
            updateInvoice(St, invoice.id, invoice, f), f)

DeleteInvoice(id, f) ==
  WriteCall("deleteInvoice", [id |-> id], deleteInvoice(St, id, f), f)

ClearAllData(f) ==
  WriteCall("clearAllData", [id |-> 0], clearAllData(St, f), f)

ImportBackup(data, f) ==
  WriteCall("importData", [id |-> 0, data |-> data], importData(St, data, f), f)

GetAllCustomers(f) ==
  ReadCall("getAllCustomers", [id |-> 0], getAllCustomers(St, f), f)

GetAllInvoices(f) ==
  ReadCall("getAllInvoices", [id |-> 0], getAllInvoices(St, f), f)

GetCustomerById(id, f) ==
  ReadCall("getCustomerById", [id |-> id], getCustomerById(St, id, f), f)

GetInvoiceById(id, f) ==
  ReadCall("getInvoiceById", [id |-> id], getInvoiceById(St, id, f), f)

GetInvoicesByCustomerId(id, f) ==
  ReadCall("getInvoicesByCustomerId", [id |-> id], getInvoicesByCustomerId(St, id, f), f)

CheckEmailExists(email, excludeId, f) ==
  ReadCall("checkEmailExists", [id |-> excludeId, email |-> email],
           checkEmailExists(St, email, excludeId, f), f)

\* the ids the callers pass
Ids == {1, 2}

\* the write calls of deleteCustomer(id): removeItem of the customer, then
\* one removeItem for each invoice of the customer
WritesOfDelete(id) ==
  1 + Cardinality({k \in DOMAIN invoicesDB :
                     ~IsTestEntry(invoicesDB[k]) /\ invoicesDB[k].customerId = id})

InitCrud ==
  /\ customersDB = StoredBy(Payload(EarlierCustomers, <<>>)).c
  /\ invoicesDB = StoredBy(Payload(<<>>, <<Invoice(1, InvNumber(7), 1, 1)>>)).i
  /\ initialized \in BOOLEAN
  /\ customers = <<>>
  /\ invoices = <<>>
  /\ customersError = FALSE
  /\ invoicesError = FALSE
  /\ form = ClosedForm
  /\ now = 1
  /\ issued = <<>>
  /\ faults = 0
  /\ inflight = Idle
  /\ last = [op |-> "constructor", res |-> "ok", arg |-> [id |-> 0], val |-> "void",
             fault |-> "none"]

NextCrud ==
  \/ \E customer \in PoolCustomers : \E f \in FaultPlans(~initialized, 1, 0) :
       CreateCustomer(customer, f)
  \/ \E customer \in PoolCustomers : \E f \in FaultPlans(~initialized, 1, 0) :
       UpdateCustomer(customer, f)
  \/ \E id \in Ids : \E f \in FaultPlans(~initialized, WritesOfDelete(id), 1) :
       DeleteCustomer(id, f)
  \/ \E invoice \in PoolInvoices : \E f \in FaultPlans(~initialized, 1, 0) :
       CreateInvoice(invoice, f)
  \/ \E invoice \in PoolInvoices : \E f \in FaultPlans(~initialized, 1, 0) :
       UpdateInvoice(invoice, f)
  \/ \E id \in Ids : \E f \in FaultPlans(~initialized, 1, 0) : DeleteInvoice(id, f)
  \/ \E f \in FaultPlans(~initialized, 2, 0) : ClearAllData(f)
  \/ \E data \in FilePayloads :
       \E f \in FaultPlans(~initialized, WritesOfImport(data), 0) : ImportBackup(data, f)
  \/ \E f \in FaultPlans(~initialized, 0, 1) : GetAllCustomers(f)
  \/ \E f \in FaultPlans(~initialized, 0, 1) : GetAllInvoices(f)
  \/ \E id \in Ids : \E f \in FaultPlans(~initialized, 0, 1) : GetCustomerById(id, f)
  \/ \E id \in Ids : \E f \in FaultPlans(~initialized, 0, 1) : GetInvoiceById(id, f)
  \/ \E id \in Ids : \E f \in FaultPlans(~initialized, 0, 1) :
       GetInvoicesByCustomerId(id, f)
  \/ \E email \in Emails : \E excludeId \in Ids \cup {0} :
       \E f \in FaultPlans(~initialized, 0, 1) : CheckEmailExists(email, excludeId, f)

SpecCrud == InitCrud /\ [][NextCrud]_vars

(***************************************************************************)
(* The invoice form (InvoiceForm).  Money is counted in tenths of a cent,  *)
(* so that a whole percentage of a price in cents is an integer; quantity, *)
(* tax rates (percent) and the discount field are plain numbers.  The      *)
(* empty text of a number input parses to NaN.                             *)
(***************************************************************************)
MaxItems == 2        \* most line items of the invoice form

Scale == 1000

Amount(units, cents) == units * Scale + cents * (Scale \div 100)

\* x || 0
OrZero(x) == IF x = NaN THEN 0 ELSE x

\* x * (rate / 100)
Percent(x, rate) == (x * rate) \div 100

RECURSIVE SumSeq(_)
\* numbers.reduce((sum, x) => sum + x, 0)
SumSeq(numbers) ==
  IF numbers = <<>> THEN 0 ELSE numbers[1] + SumSeq(Tail(numbers))

\* append({ description: '', quantity: 1, price: 0, taxRate: 0, total: 0 })
NewItem == [description |-> "", quantity |-> 1, price |-> 0, taxRate |-> 0, total |-> 0]

\* defaultValues of useForm and useState(false) of useGlobalTax;
\* customerId 0 is the option "Select a customer"
InvoiceFormDefault ==
  [open |-> TRUE, customerId |-> 0, items |-> <<NewItem>>, taxRate |-> 0,
   discount |-> 0, discountType |-> "percentage", useGlobalTax |-> FALSE]

\* (item.quantity || 0) * (item.price || 0)
ItemSubtotal(item) == OrZero(item.quantity) * OrZero(item.price)

\* variant: the item's own rate also in global mode
EffectiveTaxRate_ItemRate(b, item) == OrZero(item.taxRate)

\* useGlobalTax ? watchGlobalTaxRate : (item.taxRate || 0)
EffectiveTaxRate(b, item) ==
  IF b.useGlobalTax THEN OrZero(b.taxRate) ELSE OrZero(item.taxRate)

calculateSubtotal(b) ==
  SumSeq([n \in DOMAIN b.items |-> ItemSubtotal(b.items[n])])

calculateTotalTax(b) ==
  SumSeq([n \in DOMAIN b.items |->
            Percent(ItemSubtotal(b.items[n]), EffectiveTaxRate(b, b.items[n]))])

\* variant: the discount field is a percentage whatever its kind
calculateDiscount_AlwaysPercentage(b) ==
  Percent(calculateSubtotal(b), OrZero(b.discount))

\* the discount field counts units of money when its kind is fixed
calculateDiscount(b) ==
  IF b.discountType = "percentage"
  THEN Percent(calculateSubtotal(b), OrZero(b.discount))
  ELSE Amount(OrZero(b.discount), 0)

calculateGrandTotal(b) ==
  calculateSubtotal(b) + calculateTotalTax(b) - calculateDiscount(b)

\* the item total effect: setValue(`items.${index}.total`, total) where it differs
ItemTotals(b) ==
  [b EXCEPT !.items =
     [n \in DOMAIN b.items |->
        [b.items[n] EXCEPT !.total =
           ItemSubtotal(b.items[n])
             + Percent(ItemSubtotal(b.items[n]), EffectiveTaxRate(b, b.items[n]))]]]

InvoiceFormOpen == form.open /\ "items" \in DOMAIN form

\* a change of the form values, followed by the item total effect
EditInvoiceForm(b) ==
  /\ form' = ItemTotals(b)
  /\ Done("editInvoiceForm", "ok", "none")
  /\ UNCHANGED <<faults, customersDB, invoicesDB, initialized, customers, invoices,
                 customersError, invoicesError, now, issued>>

\* App: setShowInvoiceForm(true) mounts the form
OpenInvoiceForm ==
  /\ ~form.open
  /\ EditInvoiceForm(InvoiceFormDefault)

\* Cancel: onComplete unmounts the form
CancelInvoiceForm ==
  /\ InvoiceFormOpen
  /\ form' = ClosedForm
  /\ Done("cancelInvoiceForm", "ok", "none")
  /\ UNCHANGED <<faults, customersDB, invoicesDB, initialized, customers, invoices,
                 customersError, invoicesError, now, issued>>

SelectCustomer(customerId) ==
  /\ InvoiceFormOpen
  /\ EditInvoiceForm([form EXCEPT !.customerId = customerId])

SetDescription(n, text) ==
  /\ InvoiceFormOpen
  /\ EditInvoiceForm([form EXCEPT !.items[n].description = text])

\* onChange: parseInt(e.target.value) || 0
SetQuantity(n, typed) ==
  /\ InvoiceFormOpen
  /\ EditInvoiceForm([form EXCEPT !.items[n].quantity = OrZero(typed)])

\* onChange: parseFloat(e.target.value) || 0
SetPrice(n, typed) ==
  /\ InvoiceFormOpen
  /\ EditInvoiceForm([form EXCEPT !.items[n].price = OrZero(typed)])

\* the select of an item's rate, rendered when useGlobalTax is off
SetItemTaxRate(n, rate) ==
  /\ InvoiceFormOpen /\ ~form.useGlobalTax
  /\ EditInvoiceForm([form EXCEPT !.items[n].taxRate = rate])

\* the checkbox: setUseGlobalTax(e.target.checked)
SetUseGlobalTax(checked) ==
  /\ InvoiceFormOpen
  /\ EditInvoiceForm([form EXCEPT !.useGlobalTax = checked])

\* the global rate input, rendered when useGlobalTax is on
SetGlobalTaxRate(typed) ==
  /\ InvoiceFormOpen /\ form.useGlobalTax
  /\ EditInvoiceForm([form EXCEPT !.taxRate = OrZero(typed)])

SetDiscount(typed) ==
  /\ InvoiceFormOpen
  /\ EditInvoiceForm([form EXCEPT !.discount = OrZero(typed)])

SetDiscountType(type) ==
  /\ InvoiceFormOpen
  /\ EditInvoiceForm([form EXCEPT !.discountType = type])

\* Add Item
AppendItem ==
  /\ InvoiceFormOpen /\ Len(form.items) < MaxItems
  /\ EditInvoiceForm([form EXCEPT !.items = Append(@, NewItem)])

\* variant: the remove button is enabled on the last row too
RemoveAt_Always(items, n) ==
  [k \in 1..(Len(items) - 1) |-> IF k < n THEN items[k] ELSE items[k + 1]]

\* remove(index); the button is disabled while fields.length === 1
RemoveAt(items, n) ==
  IF Len(items) = 1 THEN items
  ELSE [k \in 1..(Len(items) - 1) |-> IF k < n THEN items[k] ELSE items[k + 1]]

RemoveItem(n) ==
  /\ InvoiceFormOpen
  /\ EditInvoiceForm([form EXCEPT !.items = RemoveAt(@, n)])

(***************************************************************************)
(* The invoice form edited without being submitted (SpecCalc).             *)
(***************************************************************************)
TypedQuantities == {NaN, 1, 2}

TypedPrices == {NaN, Amount(50, 0)}

RateOptions == {0, 10}

TypedRates == {NaN, 20}

TypedDiscounts == {NaN, 5, 10}

\* the rows of the items table
Rows == IF InvoiceFormOpen THEN DOMAIN form.items ELSE {}

NextCalc ==
  \/ OpenInvoiceForm
  \/ CancelInvoiceForm
  \/ \E n \in Rows : \E typed \in TypedQuantities : SetQuantity(n, typed)
  \/ \E n \in Rows : \E typed \in TypedPrices : SetPrice(n, typed)
  \/ \E n \in Rows : \E rate \in RateOptions : SetItemTaxRate(n, rate)
  \/ \E checked \in BOOLEAN : SetUseGlobalTax(checked)
  \/ \E typed \in TypedRates : SetGlobalTaxRate(typed)
  \/ \E typed \in TypedDiscounts : SetDiscount(typed)
  \/ \E type \in {"percentage", "fixed"} : SetDiscountType(type)
  \/ AppendItem
  \/ \E n \in Rows : RemoveItem(n)

SpecCalc == Init /\ [][NextCalc]_vars

(***************************************************************************)
(* The invoice form submitted, the invoice list and the backup import,     *)
(* from the storage the first page load fills with generated records       *)
(* (SpecBuilder).                                                          *)
(***************************************************************************)
\* zodResolver(extendedInvoiceSchema); date and dueDate keep their defaults
ValidInvoiceForm(b) ==
  /\ b.customerId # 0
  /\ \A n \in DOMAIN b.items :
       /\ b.items[n].description # ""
       /\ b.items[n].quantity >= 1
       /\ b.items[n].price >= 0
       /\ b.items[n].taxRate >= 0 /\ b.items[n].taxRate <= 100
  /\ b.taxRate >= 0 /\ b.taxRate <= 100
  /\ b.discount >= 0

\* the invoice onSubmit builds from the form values
BuiltInvoice(b, invoiceNumber, clock) ==
  LET Described(item) == item.description # ""
      kept == SelectSeq(b.items, Described)
  IN [id |-> clock, invoiceNumber |-> invoiceNumber, customerId |-> b.customerId,
      items |-> [n \in DOMAIN kept |->
                   [description |-> kept[n].description, quantity |-> kept[n].quantity,
                    price |-> kept[n].price, total |-> kept[n].total]],
      total |-> calculateGrandTotal(b),
      status |-> "unpaid", createdAt |-> DateOf(clock)]

\* handleSubmit(onSubmit): getNextInvoiceNumber, useStore.addInvoice, onComplete
SubmitInvoiceForm(f) ==
  /\ InvoiceFormOpen /\ ValidInvoiceForm(form)
  /\ now <= MaxClock
  /\ LET num == getNextInvoiceNumber(St, now, f)
         invoice == BuiltInvoice(form, num.val, now)
         r == IF num.ok THEN createInvoice(num.st, invoice, f) ELSE num
     IN /\ SetSt(r.st)
        /\ invoices' = IF r.ok THEN Append(invoices, invoice) ELSE invoices
        /\ issued' = IF r.ok THEN Append(issued, NumberOf(invoice.invoiceNumber)) ELSE issued
        /\ form' = IF r.ok THEN ClosedForm ELSE form
        /\ Done("submitInvoiceForm", IF r.ok THEN "ok" ELSE "throw", invoice.id)
  /\ now' = now + 1
  /\ Charge(f)
  /\ UNCHANGED <<customers, customersError, invoicesError>>

\* variant: the record written carries the new status and no items
ToggleInvoiceStatus_DropsItems(n, f) ==
  /\ ~form.open
  /\ LET invoice == invoices[n]
         updatedInvoice ==
           [invoice EXCEPT !.status = IF @ = "paid" THEN "unpaid" ELSE "paid",
                           !.items = <<>>]
         r == updateInvoice(St, invoice.id, updatedInvoice, f)
     IN /\ SetSt(r.st)
        /\ invoices' = IF r.ok THEN ReplaceById(invoices, invoice.id, updatedInvoice)
                       ELSE invoices
        /\ Done("toggleInvoiceStatus", IF r.ok THEN "ok" ELSE "throw", invoice.id)
  /\ Charge(f)
  /\ UNCHANGED <<customers, customersError, invoicesError, form, now, issued>>

\* InvoiceList.toggleInvoiceStatus on row n: useStore.updateInvoice
ToggleInvoiceStatus(n, f) ==
  /\ ~form.open
  /\ LET invoice == invoices[n]
         updatedInvoice ==
           [invoice EXCEPT !.status = IF @ = "paid" THEN "unpaid" ELSE "paid"]
         r == updateInvoice(St, invoice.id, updatedInvoice, f)
     IN /\ SetSt(r.st)
        /\ invoices' = IF r.ok THEN ReplaceById(invoices, invoice.id, updatedInvoice)
                       ELSE invoices
        /\ Done("toggleInvoiceStatus", IF r.ok THEN "ok" ELSE "throw", invoice.id)
  /\ Charge(f)
  /\ UNCHANGED <<customers, customersError, invoicesError, form, now, issued>>

\* Math.round(x * 100) / 100
RoundToCents(x) ==
  LET cent == Scale \div 100 IN ((2 * x + cent) \div (2 * cent)) * cent

\* an item of generateDummyInvoices
DummyItem(quantity, price, taxRate) ==
  [description |-> "Consulting", quantity |-> quantity, price |-> price,
   total |-> quantity * price + Percent(quantity * price, taxRate),
   taxRate |-> taxRate]

\* an invoice of generateDummyInvoices; discounted: Math.random() > 0.7
DummyInvoice(invoiceCounter, customerId, items, discounted, status, created) ==
  LET subtotal == SumSeq([n \in DOMAIN items |-> items[n].quantity * items[n].price])
      totalTax == SumSeq([n \in DOMAIN items |->
                            Percent(items[n].quantity * items[n].price,
                                    OrZero(items[n].taxRate))])
      discount == IF discounted THEN RoundToCents(Percent(subtotal, 10)) ELSE 0
  IN [id |-> invoiceCounter, invoiceNumber |-> InvNumber(invoiceCounter),
      customerId |-> customerId, items |-> items, subtotal |-> subtotal,
      totalTax |-> totalTax, discount |-> discount, discountType |-> "percentage",
      globalTaxRate |-> 0, total |-> subtotal + totalTax - discount,
      status |-> status, createdAt |-> DateOf(created)]

\* initializeDummyData: nothing when a customer is stored, else a
\* createCustomer per customer and a createInvoice per invoice
initializeDummyData(st, dummyCustomers, dummyInvoices) ==
  LET existing == getAllCustomers(st, NoFault)
      cs == ImportCustomers(existing.st, dummyCustomers, 1, 0, NoFault)
  IN IF Len(existing.val) > 0 THEN existing.st
     ELSE ImportInvoices(cs.st, dummyInvoices, 1, 0, NoFault).st

\* outcomes of the random draws of the generator: the items of the invoice
\* and whether it is discounted
DummyDraws ==
  {[items |-> <<DummyItem(3, Amount(50, 25), 10)>>, discounted |-> TRUE],
   [items |-> <<DummyItem(1, Amount(99, 99), 0), DummyItem(2, Amount(50, 25), 20)>>,
    discounted |-> FALSE]}

\* a backup file holding an invoice without line items
EmptyInvoiceBackup ==
  Stringify(Payload(<<>>, <<Invoice(1, InvNumber(7), 1, 1) @@ [items |-> <<>>, total |-> 0]>>))

BuilderImportTexts ==
  {NotJson, Stringify(Payload(<<>>, <<>>)), EmptyInvoiceBackup}

\* the state after the first page load: the generated records are stored
\* and the store has loaded them
InitBuilder ==
  /\ \E draw \in DummyDraws :
       LET st == initializeDummyData([c |-> EmptyDB, i |-> EmptyDB, init |-> FALSE],
                   <<Customer(1, "a@x.com", 1, 1)>>,
                   <<DummyInvoice(1, 1, draw.items, draw.discounted, "paid", 1)>>)
       IN /\ customersDB = st.c
          /\ invoicesDB = st.i
          /\ initialized = st.init
          /\ customers = ScanCustomers(st.c, FALSE)
          /\ invoices = ScanInvoices(st.i, FALSE)
  /\ customersError = FALSE
  /\ invoicesError = FALSE
  /\ form = ClosedForm
  /\ now = MaxClock
  /\ issued = <<>>
  /\ faults = 0
  /\ inflight = Idle
  /\ last = [op |-> "initializeData", res |-> "ok", arg |-> "none"]

NextBuilder ==
  \/ OpenInvoiceForm
  \/ CancelInvoiceForm
  \/ InvoiceFormOpen /\ \E n \in DOMAIN customers : SelectCustomer(customers[n].id)
  \/ \E n \in Rows : \E text \in {"", "Design"} : SetDescription(n, text)
  \/ AppendItem
  \/ \E n \in Rows : RemoveItem(n)
  \/ \E f \in FaultPlans(~initialized, 1, 1) : SubmitInvoiceForm(f)
  \/ \E n \in DOMAIN invoices : \E f \in FaultPlans(~initialized, 1, 0) :
       ToggleInvoiceStatus(n, f)
  \/ \E n \in DOMAIN invoices : \E f \in FaultPlans(~initialized, 1, 0) :
       StoreDeleteInvoice(invoices[n].id, f)
  \/ \E text \in BuilderImportTexts : \E confirmed \in BOOLEAN :
       \E f \in (IF text.kind = "json" /\ ValidFormat(text.value) /\ confirmed
                 THEN FaultPlans(~initialized, WritesOfImport(text.value), 2)
                 ELSE {NoFault}) :
         HandleImportData(text, confirmed, f)

SpecBuilder == InitBuilder /\ [][NextBuilder]_vars

(***************************************************************************)
(* The customer form over a loaded store that holds two customers and an   *)
(* invoice of each (SpecEdit).                                             *)
(***************************************************************************)
InitEdit ==
  /\ LET st == initializeDummyData([c |-> EmptyDB, i |-> EmptyDB, init |-> FALSE],
                 EarlierCustomers,
                 <<DummyInvoice(1, 1, <<DummyItem(3, Amount(50, 25), 10)>>, TRUE, "paid", 1),
                   DummyInvoice(2, 2, <<DummyItem(1, Amount(99, 99), 0)>>, FALSE, "unpaid", 2)>>)
     IN /\ customersDB = st.c
        /\ invoicesDB = st.i
        /\ initialized = st.init
        /\ customers = ScanCustomers(st.c, FALSE)
        /\ invoices = ScanInvoices(st.i, FALSE)
  /\ customersError = FALSE
  /\ invoicesError = FALSE
  /\ form = ClosedForm
  /\ now = Len(EarlierCustomers) + 1
  /\ issued = <<>>
  /\ faults = 0
  /\ inflight = Idle
  /\ last = [op |-> "initializeData", res |-> "ok", arg |-> "none"]

NextEdit ==
  \/ OpenCustomerForm
  \/ \E n \in DOMAIN customers : EditCustomer(n)
  \/ \E e \in Emails : TypeEmail(e)
  \/ \E f \in FaultPlans(~initialized, 0, 1) : CheckEmail(f)
  \/ NextStep
  \/ PreviousStep
  \/ CloseCustomerForm
  \/ \E f \in FaultPlans(~initialized, 1, 0) : SubmitCustomer(f)

SpecEdit == InitEdit /\ [][NextEdit]_vars

(***************************************************************************)
(* Calls in flight.  A call runs without interruption up to its next       *)
(* request to the storage driver (await); the driver settles the requests  *)
(* of one instance in the order they were made, except that read requests  *)
(* standing next to each other may settle in either order; whatever the    *)
(* call does after a request settles, up to its next request, happens in   *)
(* the same step.  SpecAsync interleaves the actions of useStore and the   *)
(* submission of the invoice form over a loaded store; SpecProbe           *)
(* interleaves ensureInitialized and the scans from the first load on.     *)
(***************************************************************************)
MaxCalls == 2        \* calls begun in one behaviour of SpecAsync

MaxCallers == 4      \* calls begun in one behaviour of SpecProbe

Request(db, kind, key, value) == [db |-> db, kind |-> kind, key |-> key, value |-> value]

IsRead(req) == req.kind \in {"keys", "getItem"}

\* the instance after the request and the value the request resolves to
Resolve(db, req) ==
  CASE req.kind = "setItem" -> [db |-> setItem(db, req.key, req.value), val |-> Null]
    [] req.kind = "removeItem" -> [db |-> removeItem(db, req.key), val |-> Null]
    [] req.kind = "keys" -> [db |-> db, val |-> keys(db)]
    [] req.kind = "getItem" ->
         [db |-> db, val |-> IF req.key \in DOMAIN db THEN db[req.key] ELSE Null]

\* a call: the operation and its argument, the statement it waits at, the
\* request it waits for, the keys a loop has still to visit, the rows read
Call(op, arg, pc, req) ==
  [op |-> op, arg |-> arg, pc |-> pc, req |-> req, todo |-> <<>>, rows |-> <<>>]

\* what the calls read and write besides the two instances
Ctx ==
  [init |-> initialized, customers |-> customers, invoices |-> invoices,
   now |-> now, issued |-> issued]

\* the call goes on to wait for its next request
Awaits(call, ctx) == [fin |-> FALSE, call |-> call, ctx |-> ctx, out |-> Null]

\* the call returns out
Returns(call, ctx, out) == [fin |-> TRUE, call |-> call, ctx |-> ctx, out |-> out]

\* the first request of the operation after ensureInitialized
Begin(op, arg) ==
  CASE op \in {"getAllCustomers", "loadCustomers"} ->
         Call(op, arg, "keys", Request("c", "keys", testKey, Null))
    [] op \in {"getAllInvoices", "loadInvoices", "submitInvoice"} ->
         Call(op, arg, "keys", Request("i", "keys", testKey, Null))
    [] op \in {"addCustomer", "updateCustomer"} ->
         Call(op, arg, "write",
              Request("c", "setItem", arg.id,
                      PutCustomer(EmptySt, arg.id, arg, FALSE).st.c[arg.id]))
    [] op = "updateInvoice" ->
         Call(op, arg, "write",
              Request("i", "setItem", arg.id,
                      PutInvoice(EmptySt, arg.id, arg, FALSE).st.i[arg.id]))
    [] op = "deleteCustomer" ->
         Call(op, arg, "removeCustomer", Request("c", "removeItem", arg, Null))
    [] op = "deleteInvoice" ->
         Call(op, arg, "write", Request("i", "removeItem", arg, Null))

\* await this.ensureInitialized() at the head of every method: with the
\* flag unset the caller runs the probe itself, whoever else is running it
\* (ready() of an open instance resolves without a request)
Start(op, arg, flag) ==
  IF flag THEN Begin(op, arg)
  ELSE Call(op, arg, "setTestCustomers", Request("c", "setItem", testKey, TestEntry))

\* one turn of the loop of getAllCustomers / getAllInvoices: keys(), then a
\* getItem for each key; an entry that reads as null is skipped
ScanStep(call, val) ==
  LET d == call.req.db
      rows == IF call.pc = "keys" THEN <<>>
              ELSE IF val = Null THEN call.rows
              ELSE Append(call.rows,
                          IF d = "c" THEN ReadCustomer(val) ELSE ReadInvoice(val))
      todo == IF call.pc = "keys" THEN val ELSE Tail(call.todo)
  IN IF todo = <<>>
       THEN [more |-> FALSE, rows |-> SortByCreatedDesc(rows), call |-> call]
     ELSE [more |-> TRUE, rows |-> rows,
           call |-> [call EXCEPT !.pc = "getItem", !.todo = todo, !.rows = rows,
                                 !.req = Request(d, "getItem", todo[1], Null)]]

\* the form values the invoice form is submitted with: one described row
FilledInvoiceForm(customerId) ==
  [InvoiceFormDefault EXCEPT !.customerId = customerId,
                             !.items = <<[NewItem EXCEPT !.description = "x"]>>]

\* variant: the number is taken from the clock whatever the scan returned
InvoiceNumberFrom_Clock(rows, clock) ==
  [prefix |-> "INV-", digits |-> SliceLast5(DigitsOf(clock))]

\* getNextInvoiceNumber over the rows its scan returned: the catch block
\* (a row without invoiceNumber) takes the number from the clock
InvoiceNumberFrom(rows, clock) ==
  IF \E n \in DOMAIN rows : IsTestEntry(rows[n])
    THEN [prefix |-> "INV-", digits |-> SliceLast5(DigitsOf(clock))]
  ELSE NextNumber(rows)

\* what the caller of the scan does with the rows
AfterScan(call, rows, ctx) ==
  CASE call.op = "loadCustomers" -> Returns(call, [ctx EXCEPT !.customers = rows], rows)
    [] call.op = "loadInvoices" -> Returns(call, [ctx EXCEPT !.invoices = rows], rows)
    [] call.op \in {"getAllCustomers", "getAllInvoices"} -> Returns(call, ctx, rows)
    [] call.op = "submitInvoice" ->
         \* getNextInvoiceNumber, then onSubmit builds the invoice and
         \* useStore.addInvoice calls createInvoice
         LET number == InvoiceNumberFrom(rows, ctx.now)
             invoice == BuiltInvoice(call.arg, number, ctx.now)
         IN Awaits([call EXCEPT !.pc = "write", !.arg = invoice, !.todo = <<>>,
                                !.rows = rows,
                                !.req = Request("i", "setItem", invoice.id,
                                          PutInvoice(EmptySt, invoice.id, invoice,
                                                     FALSE).st.i[invoice.id])],
                   [ctx EXCEPT !.now = @ + 1])
    [] call.op = "deleteCustomer" ->
         \* getInvoicesByCustomerId, then the loop over deleteInvoice
         LET OfCustomer(inv) == ~IsTestEntry(inv) /\ inv.customerId = call.arg
             found == SelectSeq(rows, OfCustomer)
         IN IF found = <<>>
              THEN Returns(call,
                     [ctx EXCEPT !.customers = SelectSeq(@, LAMBDA c : c.id # call.arg),
                                 !.invoices = SelectSeq(@, LAMBDA inv : inv.customerId # call.arg)],
                     call.arg)
            ELSE Awaits([call EXCEPT !.pc = "cascade",
                                     !.todo = [n \in DOMAIN found |-> found[n].id],
                                     !.rows = <<>>,
                                     !.req = Request("i", "removeItem", found[1].id, Null)],
                        ctx)

\* what the action of useStore does once its write has settled
AfterWrite(call, ctx) ==
  CASE call.op = "addCustomer" ->
         Returns(call, [ctx EXCEPT !.customers = Append(@, call.arg)], call.arg)
    [] call.op = "updateCustomer" ->
         Returns(call, [ctx EXCEPT !.customers = ReplaceById(@, call.arg.id, call.arg)],
                 call.arg)
    [] call.op = "submitInvoice" ->
         Returns(call,
                 [ctx EXCEPT !.invoices = Append(@, call.arg),
                             !.issued = Append(@, NumberOf(call.arg.invoiceNumber))],
                 call.arg)
    [] call.op = "updateInvoice" ->
         Returns(call, [ctx EXCEPT !.invoices = ReplaceById(@, call.arg.id, call.arg)],
                 call.arg)
    [] call.op = "deleteInvoice" ->
         Returns(call, [ctx EXCEPT !.invoices = SelectSeq(@, LAMBDA inv : inv.id # call.arg)],
                 call.arg)

\* the call from the settling of its request (resolved to val) up to its
\* next request or its return
Continue(call, val, ctx) ==
  CASE call.pc = "setTestCustomers" ->
         Awaits([call EXCEPT !.pc = "removeTestCustomers",
                             !.req = Request("c", "removeItem", testKey, Null)], ctx)
    [] call.pc = "removeTestCustomers" ->
         Awaits([call EXCEPT !.pc = "setTestInvoices",
                             !.req = Request("i", "setItem", testKey, TestEntry)], ctx)
    [] call.pc = "setTestInvoices" ->
         Awaits([call EXCEPT !.pc = "removeTestInvoices",
                             !.req = Request("i", "removeItem", testKey, Null)], ctx)
    [] call.pc = "removeTestInvoices" ->
         IF call.op = "initialize" THEN Returns(call, [ctx EXCEPT !.init = TRUE], Null)
         ELSE Awaits(Begin(call.op, call.arg), [ctx EXCEPT !.init = TRUE])
    [] call.pc \in {"keys", "getItem"} ->
         LET scan == ScanStep(call, val)
         IN IF scan.more THEN Awaits(scan.call, ctx)
            ELSE AfterScan(call, scan.rows, ctx)
    [] call.pc = "removeCustomer" ->
         Awaits([call EXCEPT !.pc = "keys", !.req = Request("i", "keys", testKey, Null)],
                ctx)
    [] call.pc = "cascade" ->
         IF Len(call.todo) = 1
           THEN Returns(call,
                  [ctx EXCEPT !.customers = SelectSeq(@, LAMBDA c : c.id # call.arg),
                              !.invoices = SelectSeq(@, LAMBDA inv : inv.customerId # call.arg)],
                  call.arg)
         ELSE Awaits([call EXCEPT !.todo = Tail(@),
                                  !.req = Request("i", "removeItem", call.todo[2], Null)],
                     ctx)
    [] call.pc = "write" -> AfterWrite(call, ctx)

\* the requests of a queue the driver may settle next
CanSettle(queue) ==
  {p \in DOMAIN queue :
     p = 1 \/ \A m \in 1..p : IsRead(inflight.run[queue[m]].req)}

\* a call of op begins: it runs up to its first request
Begins(op, arg) ==
  LET id == inflight.started + 1
      call == Start(op, arg, initialized)
  IN /\ inflight' = [inflight EXCEPT !.started = id,
                                     !.run = (id :> call) @@ @,
                                     ![call.req.db] = Append(@, id)]
     /\ UNCHANGED <<customersDB, invoicesDB, initialized, customers, invoices,
                    customersError, invoicesError, form, issued, faults, last>>

\* history: the call that returned last and what it returned, the
\* operations still in flight at that moment, and the same of the call
\* that returned before it
Returned(op, out, id) ==
  [op |-> op, res |-> "ok", arg |-> out,
   with |-> {inflight.run[x].op : x \in DOMAIN inflight.run \ {id}},
   prior |-> [op |-> last.op, arg |-> last.arg, with |-> last.with]]

\* the driver settles the request at place p of the queue of instance d,
\* and the call that made it runs on
Settle(d, p) ==
  /\ p \in CanSettle(inflight[d])
  /\ LET id == inflight[d][p]
         call == inflight.run[id]
         r == Resolve(IF d = "c" THEN customersDB ELSE invoicesDB, call.req)
         k == Continue(call, r.val, Ctx)
         rest == [inflight EXCEPT ![d] = SubSeq(@, 1, p - 1) \o SubSeq(@, p + 1, Len(@))]
     IN /\ customersDB' = IF d = "c" THEN r.db ELSE customersDB
        /\ invoicesDB' = IF d = "i" THEN r.db ELSE invoicesDB
        /\ initialized' = k.ctx.init
        /\ customers' = k.ctx.customers
        /\ invoices' = k.ctx.invoices
        /\ now' = k.ctx.now
        /\ issued' = k.ctx.issued
        /\ inflight' =
             IF k.fin
               THEN [rest EXCEPT !.run = [x \in DOMAIN @ \ {id} |-> @[x]]]
             ELSE [rest EXCEPT !.run[id] = k.call, ![k.call.req.db] = Append(@, id)]
        /\ last' = IF k.fin THEN Returned(call.op, k.out, id) ELSE last
  /\ UNCHANGED <<customersError, invoicesError, form, faults>>

\* the actions of useStore and the submission of the invoice form begin
LoadCustomersBegins ==
  /\ inflight.started < MaxCalls
  /\ Begins("loadCustomers", Null)
  /\ UNCHANGED now

LoadInvoicesBegins ==
  /\ inflight.started < MaxCalls
  /\ Begins("loadInvoices", Null)
  /\ UNCHANGED now

\* CustomerForm.onSubmit of a new customer: id and dates from the clock
AddCustomerBegins(email) ==
  /\ inflight.started < MaxCalls
  /\ Begins("addCustomer", Customer(now, email, now, now))
  /\ now' = now + 1

\* CustomerForm.onSubmit of row n of the list with another e-mail
UpdateCustomerBegins(n, email) ==
  /\ inflight.started < MaxCalls
  /\ Begins("updateCustomer",
            [customers[n] EXCEPT !.email = email, !.updatedAt = DateOf(now)])
  /\ now' = now + 1

\* CustomerList: delete of row n
DeleteCustomerBegins(n) ==
  /\ inflight.started < MaxCalls
  /\ Begins("deleteCustomer", customers[n].id)
  /\ UNCHANGED now

\* InvoiceForm.onSubmit for the customer of row n of the store's list
SubmitInvoiceBegins(n) ==
  /\ inflight.started < MaxCalls
  /\ Begins("submitInvoice", FilledInvoiceForm(customers[n].id))
  /\ UNCHANGED now

\* InvoiceList.toggleInvoiceStatus on row n
UpdateInvoiceBegins(n) ==
  /\ inflight.started < MaxCalls
  /\ Begins("updateInvoice", [invoices[n] EXCEPT !.status = IF @ = "paid" THEN "unpaid" ELSE "paid"])
  /\ UNCHANGED now

\* InvoiceList: delete of row n
DeleteInvoiceBegins(n) ==
  /\ inflight.started < MaxCalls
  /\ Begins("deleteInvoice", invoices[n].id)
  /\ UNCHANGED now

\* a loaded store: two customers, one invoice of the first
InitAsync ==
  /\ LET st == StoredBy(Payload(EarlierCustomers, <<Invoice(1, InvNumber(7), 1, 1)>>))
     IN /\ customersDB = st.c
        /\ invoicesDB = st.i
        /\ customers = ScanCustomers(st.c, FALSE)
        /\ invoices = ScanInvoices(st.i, FALSE)
  /\ initialized = TRUE
  /\ customersError = FALSE
  /\ invoicesError = FALSE
  /\ form = ClosedForm
  /\ now = Len(EarlierCustomers) + 1
  /\ issued = <<>>
  /\ faults = 0
  /\ inflight = Idle
  /\ last = [op |-> "initializeData", res |-> "ok", arg |-> Null, with |-> {},
             prior |-> [op |-> "none", arg |-> Null, with |-> {}]]

NextAsync ==
  \/ LoadCustomersBegins
  \/ LoadInvoicesBegins
  \/ \E email \in Emails : AddCustomerBegins(email)
  \/ \E n \in DOMAIN customers : \E email \in Emails : UpdateCustomerBegins(n, email)
  \/ \E n \in DOMAIN customers : DeleteCustomerBegins(n)
  \/ \E n \in DOMAIN customers : SubmitInvoiceBegins(n)
  \/ \E n \in DOMAIN invoices : UpdateInvoiceBegins(n)
  \/ \E n \in DOMAIN invoices : DeleteInvoiceBegins(n)
  \/ \E d \in {"c", "i"} : \E p \in DOMAIN inflight[d] : Settle(d, p)

SpecAsync == InitAsync /\ [][NextAsync]_vars

\* the same store with creations and deletions only
NextRefs ==
  \/ \E email \in Emails : AddCustomerBegins(email)
  \/ \E n \in DOMAIN customers : DeleteCustomerBegins(n)
  \/ \E n \in DOMAIN customers : SubmitInvoiceBegins(n)
  \/ \E n \in DOMAIN invoices : DeleteInvoiceBegins(n)
  \/ \E d \in {"c", "i"} : \E p \in DOMAIN inflight[d] : Settle(d, p)

SpecRefs == InitAsync /\ [][NextRefs]_vars

\* a call of getAllCustomers / getAllInvoices from a component begins
GetAllCustomersBegins ==
  /\ inflight.started < MaxCallers
  /\ Begins("getAllCustomers", Null)
  /\ UNCHANGED now

GetAllInvoicesBegins ==
  /\ inflight.started < MaxCallers
  /\ Begins("getAllInvoices", Null)
  /\ UNCHANGED now

\* the module has been loaded: the constructor's initialize() is in flight,
\* the instances hold what an earlier visit left
InitProbe ==
  /\ LET st == StoredBy(Payload(<<Customer(1, "a@x.com", 1, 1)>>,
                                <<Invoice(1, InvNumber(7), 1, 1)>>))
     IN /\ customersDB = st.c
        /\ invoicesDB = st.i
  /\ initialized = FALSE
  /\ customers = <<>>
  /\ invoices = <<>>
  /\ customersError = FALSE
  /\ invoicesError = FALSE
  /\ form = ClosedForm
  /\ now = 2
  /\ issued = <<>>
  /\ faults = 0
  /\ inflight = [started |-> 1, run |-> <<Start("initialize", Null, FALSE)>>,
                 c |-> <<1>>, i |-> <<>>]
  /\ last = [op |-> "import", res |-> "ok", arg |-> Null, with |-> {},
             prior |-> [op |-> "none", arg |-> Null, with |-> {}]]

NextProbe ==
  \/ GetAllCustomersBegins
  \/ GetAllInvoicesBegins
  \/ \E d \in {"c", "i"} : \E p \in DOMAIN inflight[d] : Settle(d, p)

SpecProbe == InitProbe /\ [][NextProbe]_vars

(***************************************************************************)
(* Properties.                                                             *)
(***************************************************************************)
\* the records of a collection: its entries without the probe entry
Records(db) == removeItem(db, testKey)

InvoicesOf(db, customerId) ==
  {k \in DOMAIN Records(db) : db[k].customerId = customerId}

\* C1: after deleteCustomer(id) has completed successfully the customer is
\* absent from the customer collection, no invoice of that customer remains
\* in the invoice collection, and the invoices of other customers are as
\* they were.
C1_DeleteRemovesCustomerAndInvoices ==
  [][(last'.op = "deleteCustomer" /\ last'.res = "ok")
       => /\ last'.arg \notin DOMAIN customersDB'
          /\ InvoicesOf(invoicesDB', last'.arg) = {}
          /\ \A k \in DOMAIN Records(invoicesDB) :
               invoicesDB[k].customerId # last'.arg
                 => k \in DOMAIN invoicesDB' /\ invoicesDB'[k] = invoicesDB[k]]_vars

\* C2: in every reachable state no two distinct customers of the customer
\* collection have e-mails that are equal ignoring letter case.
C2_EmailUnique ==
  \A j, k \in DOMAIN Records(customersDB) :
    j # k => toLowerCase(customersDB[j].email) # toLowerCase(customersDB[k].email)

\* C3: the number given to a newly created invoice is strictly greater than
\* every number given to an earlier invoice, deleted ones included.
C3_NumbersIncrease ==
  \A m, n \in DOMAIN issued : m < n => issued[m] < issued[n]

RECURSIVE Pow10(_)
Pow10(n) == IF n = 0 THEN 1 ELSE 10 * Pow10(n - 1)

RECURSIVE PlaceSum(_, _)
\* the sum of ds[k] * 10^(Len(ds) - k) over the positions k .. Len(ds)
PlaceSum(ds, k) ==
  IF k > Len(ds) THEN 0 ELSE ds[k] * Pow10(Len(ds) - k) + PlaceSum(ds, k + 1)

\* the number a run of decimal digits denotes
ValueOf(ds) == PlaceSum(ds, 1)

\* the numeric suffix of an invoice number, 0 when it does not match the pattern
SuffixOf(invoiceNumber) ==
  IF invoiceNumber.prefix = "INV-" /\ invoiceNumber.digits # <<>>
  THEN ValueOf(invoiceNumber.digits) ELSE 0

\* the maximum suffix over the stored invoices, 0 when there are none
MaxSuffix(db) ==
  LET S == {SuffixOf(db[k].invoiceNumber) : k \in DOMAIN Records(db)} \cup {0}
  IN CHOOSE m \in S : \A x \in S : x <= m

\* C4: a call of getNextInvoiceNumber whose scan of the invoices meets no
\* storage fault returns 'INV-' followed by m + 1 padded with zeros to five
\* digits, m being the maximum numeric suffix of the stored invoice numbers
\* (0 when there are none or a number does not match the pattern).
C4_NextIsMaxPlusOne ==
  (last.op = "getNextInvoiceNumber" /\ last.fault = "none")
    => /\ last.res = "ok"
       /\ last.arg.prefix = "INV-"
       /\ Len(last.arg.digits) = 5
       /\ ValueOf(last.arg.digits) = MaxSuffix(invoicesDB) + 1

\* INV-00001 .. INV-00007 are stored and the call has returned INV-00008
C4_Witness ==
  /\ last.op = "getNextInvoiceNumber" /\ last.fault = "none"
  /\ {invoicesDB[k].invoiceNumber : k \in DOMAIN Records(invoicesDB)}
       = {InvNumber(n) : n \in 1..7}
  /\ last.arg = [prefix |-> "INV-", digits |-> <<0, 0, 0, 0, 8>>]

\* C5: importData(exportData()) that meets no storage fault completes
\* successfully and leaves both collections holding the records they held
\* before: same ids, same field values, same timestamps.
C5_RoundTrip ==
  [][(last'.op = "roundTrip" /\ last'.fault = "none")
       => /\ last'.res = "ok"
          /\ Records(customersDB') = Records(customersDB)
          /\ Records(invoicesDB') = Records(invoicesDB)]_vars

\* a round trip over a storage that holds a customer and an invoice
C5_Witness ==
  /\ last.op = "roundTrip" /\ last.fault = "none" /\ last.res = "ok"
  /\ Len(last.arg.customers.items) > 0
  /\ Len(last.arg.invoices.items) > 0
  /\ DOMAIN Records(customersDB) # {}
  /\ DOMAIN Records(invoicesDB) # {}

\* C6: a backup text in the export format (createdAt and updatedAt as
\* ISO-8601 texts), once parsed, validated and confirmed, is imported
\* successfully when no storage fault occurs, and every record of the
\* payload is stored.
C6_ExportFormatAccepted ==
  (/\ last.op = "handleImportData"
   /\ last.arg.kind = "json"
   /\ last.res \in {"ok", "throw"}
   /\ faults = 0)
    => /\ last.res = "ok"
       /\ \A n \in DOMAIN last.arg.value.customers.items :
            last.arg.value.customers.items[n].id \in DOMAIN Records(customersDB)
       /\ \A n \in DOMAIN last.arg.value.invoices.items :
            last.arg.value.invoices.items[n].id \in DOMAIN Records(invoicesDB)

\* the last record of a list that carries the id
LastWithId(items, id) ==
  items[CHOOSE n \in DOMAIN items :
          items[n].id = id /\ \A m \in DOMAIN items : m > n => items[m].id # id]

IdsOf(items) == {items[n].id : n \in DOMAIN items}

\* C7: after importData(data) has completed successfully the customer
\* collection holds exactly the records of data.customers and the invoice
\* collection exactly the records of data.invoices, keyed by id; nothing
\* else is stored.
C7_ImportReplaces ==
  (last.op = "importData" /\ last.res = "ok")
    => /\ DOMAIN Records(customersDB) = IdsOf(last.arg.customers.items)
       /\ DOMAIN Records(invoicesDB) = IdsOf(last.arg.invoices.items)
       /\ \A k \in DOMAIN Records(customersDB) :
            ReadCustomer(customersDB[k]) = LastWithId(last.arg.customers.items, k)
       /\ \A k \in DOMAIN Records(invoicesDB) :
            ReadInvoice(invoicesDB[k]) = LastWithId(last.arg.invoices.items, k)

\* an import of customer 2 and invoice 2 alone has left exactly these
C7_Witness ==
  /\ last.op = "importData" /\ last.res = "ok"
  /\ IdsOf(last.arg.customers.items) = {2}
  /\ IdsOf(last.arg.invoices.items) = {2}
  /\ DOMAIN customersDB = {2}
  /\ DOMAIN invoicesDB = {2}

\* C8: when the import fails, both collections hold the records they held
\* before the call.
C8_ImportAtomic ==
  [][(last'.op = "handleImportData" /\ last'.res = "throw")
       => /\ Records(customersDB') = Records(customersDB)
          /\ Records(invoicesDB') = Records(invoicesDB)]_vars

\* the parsed payload lacks customers or invoices, or one is not an array
Malformed(text) ==
  /\ text.kind = "json"
  /\ \/ text.value.customers.kind # "array"
     \/ text.value.invoices.kind # "array"

\* C9: an import whose parsed payload lacks customers or invoices, or in
\* which either is not an array, is refused with the validation error, and
\* both stored collections and the in-memory store are left unchanged.
C9_MalformedRejected ==
  [][(last'.op = "handleImportData" /\ Malformed(last'.arg))
       => /\ last'.res = "Invalid data format"
          /\ UNCHANGED <<customersDB, invoicesDB, customers, invoices>>]_vars

\* a payload whose customers field is an object has been refused while the
\* storage and the store held customers
C9_Witness ==
  /\ last.op = "handleImportData"
  /\ last.res = "Invalid data format"
  /\ last.arg.value.customers = NotAnArray
  /\ DOMAIN Records(customersDB) # {}
  /\ Len(customers) > 0

\* C10: getAllCustomers and getAllInvoices never throw, so the catch
\* blocks of loadCustomers and loadInvoices, which set the error fields of
\* the store, are never entered.
C10_GetAllNeverThrows == ~customersError /\ ~invoicesError

WriteOps == {"createCustomer", "updateCustomer", "deleteCustomer", "createInvoice",
             "updateInvoice", "deleteInvoice", "clearAllData", "importData"}

ReadOps == {"getAllCustomers", "getAllInvoices", "getCustomerById", "getInvoiceById",
            "getInvoicesByCustomerId", "checkEmailExists"}

\* the call recorded in last has returned the safe default of its method
ReturnedSafeDefault ==
  /\ last.res = "ok"
  /\ IF last.op = "checkEmailExists" THEN last.val = FALSE
     ELSE IF last.op \in {"getCustomerById", "getInvoiceById"} THEN last.val = Null
     ELSE last.val = <<>>

\* C11: a write operation that meets a storage-driver fault raises it to
\* its caller, and a read operation that meets one returns its safe default
\* (empty sequence, absent, false).
C11_WritesRaiseReadsDefault ==
  (last.fault # "none")
    => /\ last.op \in WriteOps => last.res = "throw"
       /\ last.op \in ReadOps => ReturnedSafeDefault

\* rows holds every record of db exactly once, as it is read back
HoldsEachOnce(rows, db, Read(_)) ==
  /\ Len(rows) = Cardinality(DOMAIN Records(db))
  /\ \A k \in DOMAIN Records(db) : \E n \in DOMAIN rows : rows[n] = Read(db[k])

\* each record of rows was created no earlier than the one after it
NewestFirst(rows) ==
  \A n \in DOMAIN rows :
    n < Len(rows) => rows[n].createdAt.ms >= rows[n + 1].createdAt.ms

\* C12: a call of getAllCustomers or getAllInvoices that meets no storage
\* fault returns every stored record of its collection exactly once, and of
\* two adjacent records of the result the first has the greater or equal
\* createdAt.
C12_GetAllSortedAndComplete ==
  /\ (last.op = "getAllCustomers" /\ last.fault = "none")
       => /\ last.res = "ok"
          /\ HoldsEachOnce(last.val, customersDB, ReadCustomer)
          /\ NewestFirst(last.val)
  /\ (last.op = "getAllInvoices" /\ last.fault = "none")
       => /\ last.res = "ok"
          /\ HoldsEachOnce(last.val, invoicesDB, ReadInvoice)
          /\ NewestFirst(last.val)

\* getAllCustomers has returned two customers, the one stored under the
\* greater key first because it was created later
C12_Witness ==
  /\ last.op = "getAllCustomers" /\ last.fault = "none"
  /\ Len(last.val) = 2
  /\ last.val[1].id > last.val[2].id
  /\ last.val[1].createdAt.ms > last.val[2].createdAt.ms

\* the storage after the step
StAfter == [c |-> customersDB', i |-> invoicesDB', init |-> initialized']

\* the step stored something under key id of db and left every other key alone
UpsertedAt(db, dbAfter, id) ==
  /\ DOMAIN Records(dbAfter) = DOMAIN Records(db) \cup {id}
  /\ \A k \in DOMAIN Records(db) : k # id => dbAfter[k] = db[k]

\* no two rows carry the same id
OneRowPerId(rows) ==
  \A m, n \in DOMAIN rows : m # n => rows[m].id # rows[n].id

\* C13: after createX(record) or updateX(id, record) has completed
\* successfully, getById(id) returns the written record, the collection
\* holds one record for that id whether or not the id was present before,
\* and every other record of both collections is unchanged; after
\* deleteX(id) has completed successfully, getById(id) is absent.
C13_UpsertById ==
  [][/\ (last'.op \in {"createCustomer", "updateCustomer"} /\ last'.res = "ok")
        => /\ getCustomerById(StAfter, last'.arg.id, NoFault).val = last'.arg.record
           /\ UpsertedAt(customersDB, customersDB', last'.arg.id)
           /\ OneRowPerId(getAllCustomers(StAfter, NoFault).val)
           /\ Records(invoicesDB') = Records(invoicesDB)
     /\ (last'.op \in {"createInvoice", "updateInvoice"} /\ last'.res = "ok")
        => /\ getInvoiceById(StAfter, last'.arg.id, NoFault).val = last'.arg.record
           /\ UpsertedAt(invoicesDB, invoicesDB', last'.arg.id)
           /\ OneRowPerId(getAllInvoices(StAfter, NoFault).val)
           /\ Records(customersDB') = Records(customersDB)
     /\ (last'.op = "deleteCustomer" /\ last'.res = "ok")
        => getCustomerById(StAfter, last'.arg.id, NoFault).val = Null
     /\ (last'.op = "deleteInvoice" /\ last'.res = "ok")
        => getInvoiceById(StAfter, last'.arg.id, NoFault).val = Null]_vars

\* createCustomer with the id of a stored customer has replaced that
\* customer: two customers are stored and id 2 now has the new e-mail
C13_Witness ==
  /\ last.op = "createCustomer" /\ last.res = "ok"
  /\ last.arg.record = Customer(2, "A@x.com", 2, 2)
  /\ DOMAIN customersDB = {1, 2}
  /\ customersDB[2].email = "A@x.com"

\* some row has the id and the timestamps of the record
HasRowWithTimes(rows, record, fields) ==
  \E n \in DOMAIN rows :
    rows[n].id = record.id /\ \A fld \in fields : rows[n][fld] = record[fld]

\* C14: a customer or invoice written with create or update is stored with
\* its createdAt (and updatedAt for a customer) as a text, and getById and
\* getAll hand the timestamps back as Date values denoting the instants
\* that were written.
C14_TimestampsSurvive ==
  [][/\ (last'.op \in {"createCustomer", "updateCustomer"} /\ last'.res = "ok")
        => LET record == last'.arg.record
               stored == customersDB'[last'.arg.id]
               read == getCustomerById(StAfter, last'.arg.id, NoFault).val
           IN /\ stored.createdAt = IsoString(record.createdAt.ms)
              /\ stored.updatedAt = IsoString(record.updatedAt.ms)
              /\ read.createdAt = DateOf(record.createdAt.ms)
              /\ read.updatedAt = DateOf(record.updatedAt.ms)
              /\ HasRowWithTimes(getAllCustomers(StAfter, NoFault).val, record,
                                 {"createdAt", "updatedAt"})
     /\ (last'.op \in {"createInvoice", "updateInvoice"} /\ last'.res = "ok")
        => LET record == last'.arg.record
               stored == invoicesDB'[last'.arg.id]
               read == getInvoiceById(StAfter, last'.arg.id, NoFault).val
           IN /\ stored.createdAt = IsoString(record.createdAt.ms)
              /\ read.createdAt = DateOf(record.createdAt.ms)
              /\ HasRowWithTimes(getAllInvoices(StAfter, NoFault).val, record,
                                 {"createdAt"})]_vars

\* updateCustomer has written a customer created at 1 and updated at 3
C14_Witness ==
  /\ last.op = "updateCustomer" /\ last.res = "ok"
  /\ last.arg.record.createdAt = DateOf(1)
  /\ last.arg.record.updatedAt = DateOf(3)
  /\ customersDB[last.arg.id].createdAt = IsoString(1)
  /\ customersDB[last.arg.id].updatedAt = IsoString(3)

RECURSIVE SumUpTo(_, _)
\* numbers[1] + .. + numbers[n]
SumUpTo(numbers, n) == IF n = 0 THEN 0 ELSE SumUpTo(numbers, n - 1) + numbers[n]

\* the sum over the rows of quantity x price
SumOfLines(items) ==
  SumUpTo([n \in DOMAIN items |-> items[n].quantity * items[n].price], Len(items))

\* the example of the calculator: one item of quantity 2, price 50 and rate
\* 10, a fixed discount of 5
IsExample(b) ==
  /\ Len(b.items) = 1
  /\ b.items[1].quantity = 2 /\ b.items[1].price = Amount(50, 0)
  /\ b.items[1].taxRate = 10 /\ ~b.useGlobalTax
  /\ b.discount = 5 /\ b.discountType = "fixed"

\* C15: whatever the line items, the discount value and its kind, the
\* calculator of the invoice form yields subtotal = the sum of quantity x
\* price, discountAmount = subtotal x discount / 100 for a percentage and
\* = discount for a fixed discount, and grandTotal = subtotal + totalTax -
\* discountAmount, with no remainder lost; the example yields 100, 10, 5, 105.
C15_CalculatorTotals ==
  InvoiceFormOpen =>
    /\ calculateSubtotal(form) = SumOfLines(form.items)
    /\ form.discountType = "percentage" =>
         100 * calculateDiscount(form) = SumOfLines(form.items) * form.discount
    /\ form.discountType = "fixed" =>
         calculateDiscount(form) = form.discount * Scale
    /\ calculateGrandTotal(form)
         = SumOfLines(form.items) + calculateTotalTax(form) - calculateDiscount(form)
    /\ IsExample(form) =>
         /\ calculateSubtotal(form) = Amount(100, 0)
         /\ calculateTotalTax(form) = Amount(10, 0)
         /\ calculateDiscount(form) = Amount(5, 0)
         /\ calculateGrandTotal(form) = Amount(105, 0)

\* the form holds the example and the calculator has its grand total
C15_Witness ==
  /\ InvoiceFormOpen
  /\ IsExample(form)
  /\ calculateGrandTotal(form) = Amount(105, 0)

\* the rate that applies to a row: the global rate in global mode, the row's
\* own rate otherwise
RateOf(b, n) == IF b.useGlobalTax THEN b.taxRate ELSE b.items[n].taxRate

\* C16: totalTax is the sum over the items of itemSubtotal x effectiveRate /
\* 100, the effective rate being the global rate for every item in global
\* mode, whatever the item's own rate, and the item's own rate otherwise;
\* each line total is itemSubtotal plus the item's tax at that rate.
C16_TaxByEffectiveRate ==
  InvoiceFormOpen =>
    /\ 100 * calculateTotalTax(form)
         = SumUpTo([n \in DOMAIN form.items |->
                      form.items[n].quantity * form.items[n].price * RateOf(form, n)],
                   Len(form.items))
    /\ \A n \in DOMAIN form.items :
         100 * form.items[n].total
           = form.items[n].quantity * form.items[n].price * (100 + RateOf(form, n))

\* global mode with a global rate other than the own rate of a priced row
C16_Witness ==
  /\ InvoiceFormOpen
  /\ form.useGlobalTax /\ form.taxRate = 20
  /\ \E n \in DOMAIN form.items :
       /\ form.items[n].taxRate = 10
       /\ form.items[n].quantity = 2 /\ form.items[n].price = Amount(50, 0)
       /\ form.items[n].total = Amount(120, 0)
  /\ calculateTotalTax(form) > 0

\* the invoices of the collection: the stored records
StoredInvoices == {invoicesDB[k] : k \in DOMAIN Records(invoicesDB)}

\* C17: every persisted invoice carries subtotal, totalTax, discount and
\* total, and its total is subtotal + totalTax - discount over its own
\* stored fields, whether the invoice form or the generator of the first
\* page load wrote it.
C17_TotalsPersisted ==
  \A invoice \in StoredInvoices :
    /\ {"subtotal", "totalTax", "discount", "total"} \subseteq DOMAIN invoice
    /\ invoice.total = invoice.subtotal + invoice.totalTax - invoice.discount

\* C18: every invoice of the collection, stored or listed by the store, has
\* at least one line item, whatever invoices the form created and whatever
\* status toggles, deletions and imports followed.
C18_AtLeastOneItem ==
  /\ \A invoice \in StoredInvoices : Len(invoice.items) >= 1
  /\ \A n \in DOMAIN invoices : Len(invoices[n].items) >= 1

\* an invoice the form created is stored, and its status has been toggled
C18_Witness ==
  /\ last.op = "toggleInvoiceStatus" /\ last.res = "ok"
  /\ last.arg = MaxClock
  /\ MaxClock \in DOMAIN invoicesDB
  /\ invoicesDB[MaxClock].status = "paid"
  /\ Len(invoicesDB[MaxClock].items) >= 1

\* some stored customer other than excludeId has the e-mail, letter case
\* ignored
StoredDuplicate(db, email, excludeId) ==
  \E k \in DOMAIN Records(db) :
    /\ k # excludeId
    /\ toLowerCase(db[k].email) = toLowerCase(email)

\* C19: a customer whose e-mail differs from a stored customer's in letter
\* case only is rejected as a duplicate: the check of the form returns true
\* exactly when a stored customer other than the edited one has the e-mail,
\* case ignored; while the form shows the duplicate it writes nothing; and
\* no customer is created with the e-mail of a stored one.
C19_DuplicateRejected ==
  [][/\ (last'.op = "checkEmail" /\ last'.res = "ok") =>
          (form'.emailError <=> StoredDuplicate(customersDB, form.email, form.editing.id))
     /\ (form.open /\ form.emailError) =>
          (Records(customersDB') = Records(customersDB) /\ customers' = customers)
     /\ (last'.op = "submitCustomer" /\ last'.res = "ok" /\ form.editing = NoCustomer) =>
          ~StoredDuplicate(customersDB, form.email, 0)]_vars

\* C20: editing a customer through the form writes a record with the id
\* and the creation time of the edited customer, replaces it in the storage
\* and in the store's list without changing the number of customers, and
\* leaves every other customer and every invoice as it was.
C20_UpdateInPlace ==
  [][(last'.op = "submitCustomer" /\ last'.res = "ok" /\ form.editing # NoCustomer) =>
       LET id == form.editing.id
       IN /\ last'.arg.id = id
          /\ last'.arg.createdAt = form.editing.createdAt
          /\ DOMAIN Records(customersDB') = DOMAIN Records(customersDB)
          /\ customersDB'[id].id = id
          /\ customersDB'[id].email = form.email
          /\ customersDB'[id].createdAt = customersDB[id].createdAt
          /\ \A k \in DOMAIN Records(customersDB) :
               k # id => customersDB'[k] = customersDB[k]
          /\ Len(customers') = Len(customers)
          /\ \A n \in DOMAIN customers :
               IF customers[n].id = id
               THEN /\ customers'[n].id = id
                    /\ customers'[n].email = form.email
                    /\ customers'[n].createdAt = customers[n].createdAt
               ELSE customers'[n] = customers[n]
          /\ Records(invoicesDB') = Records(invoicesDB)
          /\ invoices' = invoices]_vars

\* an edit that changed the e-mail of customer 2 has been saved while
\* customer 1 and both invoices are stored
C20_Witness ==
  /\ last.op = "submitCustomer" /\ last.res = "ok"
  /\ form.open /\ form.saved /\ form.editing.id = 2
  /\ form.editing.email # customersDB[2].email
  /\ customersDB[2].createdAt = IsoString(2)
  /\ customersDB[2].updatedAt # IsoString(2)
  /\ 1 \in DOMAIN customersDB
  /\ Cardinality(DOMAIN Records(invoicesDB)) = 2

Flipped(status) == IF status = "paid" THEN "unpaid" ELSE "paid"

\* C21: a status toggle flips the status of the invoice between paid and
\* unpaid and leaves every other field of it, in the store's list and in
\* the storage, and every other invoice and every customer as they were;
\* an invoice read from the storage has the stored totals.
C21_ToggleOnlyStatus ==
  [][/\ (last'.op = "toggleInvoiceStatus" /\ last'.res = "ok") =>
          LET id == last'.arg
          IN /\ Len(invoices') = Len(invoices)
             /\ \A n \in DOMAIN invoices :
                  invoices'[n] = IF invoices[n].id = id
                                 THEN [invoices[n] EXCEPT !.status = Flipped(@)]
                                 ELSE invoices[n]
             /\ id \in DOMAIN invoicesDB =>
                  invoicesDB'[id] = [invoicesDB[id] EXCEPT !.status = Flipped(@)]
             /\ DOMAIN Records(invoicesDB') = DOMAIN Records(invoicesDB) \cup {id}
             /\ \A k \in DOMAIN Records(invoicesDB) :
                  k # id => invoicesDB'[k] = invoicesDB[k]
             /\ Records(customersDB') = Records(customersDB)
             /\ customers' = customers
     /\ \A invoice \in StoredInvoices :
          [ReadInvoice(invoice) EXCEPT !.createdAt = invoice.createdAt] = invoice]_vars

\* the generated invoice has been toggled to unpaid while the invoice the
\* form created is stored
C21_Witness ==
  /\ last.op = "toggleInvoiceStatus" /\ last.res = "ok" /\ last.arg = 1
  /\ 1 \in DOMAIN invoicesDB /\ MaxClock \in DOMAIN invoicesDB
  /\ invoicesDB[1].status = "unpaid"
  /\ invoicesDB[1].subtotal > 0
  /\ Len(invoicesDB[1].items) >= 1

\* 'INV-' followed by the last five digits of the time in milliseconds
TimestampNumber(ms) == [prefix |-> "INV-", digits |-> SliceLast5(DigitsOf(ms))]

\* C22: when the scan of the stored invoices meets a storage fault,
\* getNextInvoiceNumber does not raise and returns the number derived from
\* the current time.
C22_FallbackOnScanFault ==
  (last.op = "getNextInvoiceNumber" /\ last.fault = "read")
    => /\ last.res = "ok"
       /\ last.arg = TimestampNumber(now)

\* no call is in flight
Quiet == inflight.run = <<>>

\* the submissions of the invoice form that hold their number and have not
\* written their invoice yet
HoldingNumber ==
  {id \in DOMAIN inflight.run :
     inflight.run[id].op = "submitInvoice" /\ inflight.run[id].pc = "write"}

C26_NoInvoiceLeftAfterDelete ==
  [][(last'.op = "deleteCustomer" /\ last'.res = "ok")
       => InvoicesOf(invoicesDB', last'.arg.id) = {}]_vars

\* the calls that return in this step
Returning == {inflight.run[id] : id \in DOMAIN inflight.run \ DOMAIN inflight'.run}

IdsInOrder(list) == [n \in DOMAIN list |-> list[n].id]

\* C25: last write wins.  When an update of a record returns (its storage
\* write has settled), the stored record reads back as the record of that
\* update in every field, and every row of the in-memory list with that id
\* is that same record, whichever other updates of the id are in flight or
\* have returned before; the list keeps its ids.  So once two concurrent
\* updates of one id have both returned, storage and store hold the record
\* of the one whose write settled last, never a mixture.
C25_LastWriteWins ==
  [][\A call \in Returning :
       /\ call.op = "updateCustomer"
            => /\ call.arg.id \in DOMAIN customersDB'
               /\ ReadCustomer(customersDB'[call.arg.id]) = call.arg
               /\ \A n \in DOMAIN customers' :
                    customers'[n].id = call.arg.id => customers'[n] = call.arg
               /\ IdsInOrder(customers') = IdsInOrder(customers)
       /\ call.op = "updateInvoice"
            => /\ call.arg.id \in DOMAIN invoicesDB'
               /\ ReadInvoice(invoicesDB'[call.arg.id]) = call.arg
               /\ \A n \in DOMAIN invoices' :
                    invoices'[n].id = call.arg.id => invoices'[n] = call.arg
               /\ IdsInOrder(invoices') = IdsInOrder(invoices)]_vars

\* two updates of one customer with different records were in flight
\* together and have both returned; storage and store hold the record of
\* the one that returned last
C25_Witness ==
  /\ Quiet
  /\ last.op = "updateCustomer" /\ last.prior.op = "updateCustomer"
  /\ "updateCustomer" \in last.prior.with
  /\ last.prior.arg.id = last.arg.id
  /\ last.prior.arg.email # last.arg.email
  /\ ReadCustomer(customersDB[last.arg.id]) = last.arg
  /\ \E n \in DOMAIN customers : customers[n] = last.arg

\* the list holds exactly the rows, each once
Mirrors(list, rows) == Range(list) = Range(rows) /\ Len(list) = Len(rows)

\* C27: the store mirrors storage.  Whatever the interleaving of the store
\* actions, once no action is in flight the store's customers and invoices
\* are exactly the records storage holds (as they are read back), each id
\* once.
C27_StoreMirrorsStorage ==
  Quiet => /\ Mirrors(customers, ScanCustomers(customersDB, FALSE))
           /\ Mirrors(invoices, ScanInvoices(invoicesDB, FALSE))

\* C28: referential integrity.  After any interleaving of customer
\* creations, invoice creations for a customer of the store's list,
\* customer deletions and invoice deletions that have all returned, no
\* stored invoice names a customer that is not stored.
C28_NoOrphanInvoice ==
  Quiet => \A k \in DOMAIN Records(invoicesDB) :
             invoicesDB[k].customerId \in DOMAIN Records(customersDB)

\* C29: the probe entry is never observable.  No call of getAllCustomers or
\* getAllInvoices returns it, whatever the interleaving of the callers
\* (those that ran the probe of ensureInitialized themselves included), and
\* once every call has returned it is in neither instance.
C29_ProbeNeverObserved ==
  /\ last.op \in {"getAllCustomers", "getAllInvoices"}
       => \A n \in DOMAIN last.arg : ~IsTestEntry(last.arg[n])
  /\ Quiet => testKey \notin DOMAIN customersDB /\ testKey \notin DOMAIN invoicesDB

\* C30: the steps of the customer form.  The step of the open form is 1, 2
\* or 3; the form enters step 3 only in the step in which its onSubmit has
\* written the customer successfully (the record is stored) and has set
\* savedCustomer; an onSubmit whose write failed leaves the form as it was,
\* on step 2 with nothing saved; and the form never leaves step 3 for step
\* 1 or 2 while it is mounted.
C30_StepsOfCustomerForm ==
  [][/\ form'.open => form'.step \in {1, 2, 3}
     /\ (form'.open /\ form'.step = 3 /\ ~(form.open /\ form.step = 3))
          => /\ last'.op = "submitCustomer" /\ last'.res = "ok"
             /\ form'.saved
             /\ last'.arg.id \in DOMAIN customersDB'
             /\ ReadCustomer(customersDB'[last'.arg.id]) = last'.arg
     /\ (last'.op = "submitCustomer" /\ last'.res = "throw")
          => form' = form /\ form'.step = 2 /\ ~form'.saved
     /\ (form'.open /\ form'.step < 3) => ~form'.saved
     /\ (form.open /\ form.step = 3 /\ form'.open) => form'.step = 3]_vars

\* the form is on step 3 after a write that succeeded, in a behaviour in
\* which a storage fault had occurred before
C30_Witness ==
  /\ form.open /\ form.step = 3 /\ form.saved
  /\ last.op = "submitCustomer" /\ last.res = "ok"
  /\ faults > 0
====
